---- MODULE Spec2Model ----
(***************************************************************************)
(* FlowLens: the run controller of PlaywrightCapture.capture_workflow, its *)
(* loop guard _is_looping and the action executor _execute_action          *)
(* (src/capture/playwright_capture.py), with the configuration of          *)
(* src/core/config.py.                                                     *)
(*                                                                         *)
(* Python values are modelled as follows.  A str is a sequence of          *)
(* one-character strings; None is the one-element sequence Null and a      *)
(* non-string, non-null JSON value (a number) is NonStr.  A call that can  *)
(* return a boolean or raise yields one of "true", "false", "raise".       *)
(***************************************************************************)
EXTENDS Integers, Sequences, FiniteSets, TLC

VARIABLES
    pc,                  \* position of capture_workflow
    max_steps,           \* local max_steps after line 46
    min_actions,         \* Config.MIN_SUCCESSFUL_ACTIONS
    step_count,          \* local step_count
    successful_actions,  \* local successful_actions
    workflow_completed,  \* local workflow_completed
    failure_reason,      \* local failure_reason
    action_history,      \* local action_history
    screenshots,         \* local screenshots (the step of each entry)
    decision,            \* the decision returned by the last _ask_claude call
    outcome,             \* the record built by the return statement reached
    context,             \* the browser context: "none", "open", "closed"
    oracle_calls,        \* number of _ask_claude calls made by the run
    exec_calls,          \* number of _execute_action calls made by the run
    close_calls,         \* number of context.close() calls made by the run
    fn,                  \* the function applied on its own ("" in a run)
    fin,                 \* its arguments
    fout                 \* its result ("none" before the call)

vars == <<pc, max_steps, min_actions, step_count, successful_actions,
          workflow_completed, failure_reason, action_history, screenshots,
          decision, outcome, context, oracle_calls, exec_calls, close_calls,
          fn, fin, fout>>

runVars == <<pc, max_steps, min_actions, step_count, successful_actions,
             workflow_completed, failure_reason, action_history, screenshots,
             decision, outcome, context, oracle_calls, exec_calls, close_calls>>

fnVars == <<fn, fin, fout>>

----------------------------------------------------------------------------
(* Bounds *)

MaxSteps == 4          \* largest step budget of a run
MaxMinActions == 2     \* largest configured MIN_SUCCESSFUL_ACTIONS
MaxHist == 4           \* longest history handed to _is_looping on its own
MaxElems == 2          \* most elements of a page handed to _execute_click
MaxPieces == 3         \* most pieces of an oracle response
MaxLen == 4            \* longest target handed to the normalisation
MaxScript == 4         \* most intents of an oracle script
MaxWords == 4          \* most words of a text handed to _extract_keywords

----------------------------------------------------------------------------
(* Python values *)

Null == <<"<null>">>
NonStr == <<"<number>">>

IsStr(v) == v # Null /\ v # NonStr

\* bool(v): None, "" and 0 are falsy; NonStr stands for a non-zero number
Truthy(v) == v # Null /\ v # <<>>

Whitespace == {" ", "\t", "\n"}

UpperLetters == <<"A", "B", "C", "D", "E", "F", "G", "H", "I", "J", "K", "L", "M">>
                \o <<"N", "O", "P", "Q", "R", "S", "T", "U", "V", "W", "X", "Y", "Z">>

LowerLetters == <<"a", "b", "c", "d", "e", "f", "g", "h", "i", "j", "k", "l", "m">>
                \o <<"n", "o", "p", "q", "r", "s", "t", "u", "v", "w", "x", "y", "z">>

LowerChar(c) ==
    IF \E i \in 1..Len(UpperLetters) : UpperLetters[i] = c
    THEN LowerLetters[CHOOSE i \in 1..Len(UpperLetters) : UpperLetters[i] = c]
    ELSE c

\* str.lower()
Lower(s) == [i \in 1..Len(s) |-> LowerChar(s[i])]

RECURSIVE LStrip(_)
LStrip(s) ==
    IF s = <<>> THEN s
    ELSE IF Head(s) \in Whitespace THEN LStrip(Tail(s)) ELSE s

RECURSIVE RStrip(_)
RStrip(s) ==
    IF s = <<>> THEN s
    ELSE IF s[Len(s)] \in Whitespace THEN RStrip(SubSeq(s, 1, Len(s) - 1)) ELSE s

\* str.strip()
Strip(s) == RStrip(LStrip(s))

\* lowered, with one whitespace character taken from each end
NormalizeTargetTrimsOne(t) ==
    LET lowered == Lower(t)
        left == IF lowered # <<>> /\ Head(lowered) \in Whitespace
                THEN Tail(lowered) ELSE lowered
    IN  IF left # <<>> /\ left[Len(left)] \in Whitespace
        THEN SubSeq(left, 1, Len(left) - 1) ELSE left

\* the target normalisation of _is_looping: .lower().strip()
NormalizeTarget(t) == Strip(Lower(t))

Digits == {"0", "1", "2", "3", "4", "5", "6", "7", "8", "9"}

\* str.isdigit()
IsDigit(s) == s # <<>> /\ \A i \in 1..Len(s) : s[i] \in Digits

DigitValue(c) ==
    CASE c = "0" -> 0 [] c = "1" -> 1 [] c = "2" -> 2 [] c = "3" -> 3
      [] c = "4" -> 4 [] c = "5" -> 5 [] c = "6" -> 6 [] c = "7" -> 7
      [] c = "8" -> 8 [] OTHER -> 9

\* int(s) for a string of digits
RECURSIVE ParseInt(_)
ParseInt(s) ==
    IF s = <<>> THEN 0
    ELSE 10 * ParseInt(SubSeq(s, 1, Len(s) - 1)) + DigitValue(s[Len(s)])

\* str.startswith
StartsWith(s, prefix) ==
    Len(s) >= Len(prefix) /\ SubSeq(s, 1, Len(prefix)) = prefix

\* the operator in on two strings
Contains(s, sub) ==
    \E i \in 1..(Len(s) - Len(sub) + 1) : SubSeq(s, i, i + Len(sub) - 1) = sub

\* str.find of one character, counted from 1; 0 when it is absent
IndexOf(s, c) ==
    IF \E i \in 1..Len(s) : s[i] = c
    THEN CHOOSE i \in 1..Len(s) : s[i] = c /\ \A j \in 1..(i - 1) : s[j] # c
    ELSE 0

\* str.split(c, 1) of a string that holds c
SplitOnce(s, c) ==
    <<SubSeq(s, 1, IndexOf(s, c) - 1), SubSeq(s, IndexOf(s, c) + 1, Len(s))>>

----------------------------------------------------------------------------
(* _is_looping *)

\* one element of the all(...) generator of lines 310-314: the action is
\* compared first, the entry's target is lowered only when the actions agree
LoopEntryMatches(entry, current) ==
    IF entry.action # current.action THEN "false"
    ELSE IF ~IsStr(entry.target) THEN "raise"
    ELSE IF NormalizeTarget(entry.target) = NormalizeTarget(current.target)
         THEN "true" ELSE "false"

IsLoopingLenient(history, current) ==
    IF Len(history) < 3 THEN "false"
    ELSE IF ~IsStr(current.target) THEN "raise"
    ELSE LET recent == SubSeq(history, Len(history) - 2, Len(history))
             m1 == LoopEntryMatches(recent[1], current)
             m2 == LoopEntryMatches(recent[2], current)
             m3 == LoopEntryMatches(recent[3], current)
             same_action == IF m1 # "true" THEN m1
                            ELSE IF m2 # "true" THEN m2 ELSE m3
             all_succeeded == \A i \in 1..3 : recent[i].status = "success"
         IN  IF same_action # "true" THEN same_action
             ELSE IF all_succeeded THEN "true" ELSE "false"

IsLooping(history, current) ==
    IF Len(history) < 3 THEN "false"
    ELSE IF ~IsStr(current.target) THEN "raise"
    ELSE LET recent == SubSeq(history, Len(history) - 2, Len(history))
             m1 == LoopEntryMatches(recent[1], current)
             m2 == LoopEntryMatches(recent[2], current)
             m3 == LoopEntryMatches(recent[3], current)
             same_action == IF m1 # "true" THEN m1
                            ELSE IF m2 # "true" THEN m2 ELSE m3
             all_succeeded == \A i \in 1..3 : recent[i].status = "success"
         IN  IF same_action # "true" THEN same_action
             ELSE IF all_succeeded THEN "true" ELSE "true"

----------------------------------------------------------------------------
(* _wait_for_state_change, _execute_click, _execute_type, _execute_action *)

DefaultWaitMs == 1000

\* The page's behaviour during one _execute_action call:
\*   click       whether a click strategy of _execute_click lands
\*   url_changed whether page.url differs from previous_url while polled
\*   idle        page.wait_for_load_state("networkidle") of the verifier
\*   pause       page.wait_for_timeout(300) of the verifier
\*   type        whether a candidate of _execute_type takes the text
\*   goto        page.goto of a navigate action
\*   wait        page.wait_for_timeout of a wait action
CalmPage == [click |-> "true", url_changed |-> TRUE, idle |-> "ok",
             pause |-> "ok", type |-> "true", goto |-> "ok", wait |-> "ok"]

WaitForStateChange(drv) ==
    IF drv.url_changed THEN "true"
    ELSE IF drv.idle = "ok" THEN "true"
    ELSE IF drv.pause = "raise" THEN "raise"
    ELSE "false"

\* line 361 strips the target: a non-string, non-empty target raises there;
\* otherwise the strategies either land a click or are exhausted
ExecuteClick(decision_, drv) ==
    IF Truthy(decision_.target) /\ ~IsStr(decision_.target) THEN "raise"
    ELSE drv.click

\* lines 635 and 656 apply str operations to the target
ExecuteType(target, text, drv) ==
    IF ~IsStr(target) THEN "raise"
    ELSE drv.type

\* line 346
WaitDuration(target) == IF IsDigit(target) THEN ParseInt(target) ELSE DefaultWaitMs

\* the kinds _execute_action dispatches on (lines 334-345)
ExecutableKinds == {"click", "type", "navigate", "wait"}

\* a kind that is not recognised treated like a wait
ExecuteActionDefaultsToWait(decision_, drv) ==
    LET action == decision_.action
        target == decision_.target
    IN  IF action = "click" THEN
            LET success == ExecuteClick(decision_, drv)
            IN  IF success = "true"
                THEN IF WaitForStateChange(drv) = "raise" THEN "raise" ELSE "true"
                ELSE success
        ELSE IF action = "type" THEN ExecuteType(target, decision_.text, drv)
        ELSE IF action = "navigate" THEN
            IF ~IsStr(target) \/ drv.goto = "raise" THEN "raise" ELSE "true"
        ELSE IF ~IsStr(target) \/ drv.wait = "raise" THEN "raise"
        ELSE "true"

\* the body of the try block, lines 334-353
ExecuteActionBody(decision_, drv) ==
    LET action == decision_.action
        target == decision_.target
        text == decision_.text
    IN  IF action = "click" THEN
            LET success == ExecuteClick(decision_, drv)
            IN  IF success = "true"
                THEN IF WaitForStateChange(drv) = "raise" THEN "raise" ELSE "true"
                ELSE success
        ELSE IF action = "type" THEN ExecuteType(target, text, drv)
        ELSE IF action = "navigate" THEN
            IF ~IsStr(target) \/ drv.goto = "raise" THEN "raise" ELSE "true"
        ELSE IF action = "wait" THEN
            IF ~IsStr(target) THEN "raise"
            ELSE LET duration == WaitDuration(target)
                 IN  \* page.wait_for_timeout(duration)
                     IF duration >= 0 /\ drv.wait = "raise" THEN "raise"
                     ELSE "true"
        ELSE "false"

ExecuteActionUncaught(decision_, drv) == ExecuteActionBody(decision_, drv)

ExecuteAction(decision_, drv) ==
    LET result == ExecuteActionBody(decision_, drv)
    IN  IF result = "raise" THEN "false" ELSE result

\* the page methods _wait_for_state_change calls (lines 622-630)
WaitForStateChangeOps(drv) ==
    IF drv.url_changed THEN {}
    ELSE IF drv.idle = "ok" THEN {"wait_for_load_state"}
    ELSE {"wait_for_load_state", "wait_for_timeout"}

\* the page methods one call of _execute_action invokes (lines 333-353); the
\* read of the attribute page.url (line 331) is not a method call
ExecuteActionOps(decision_, drv) ==
    LET action == decision_.action
        target == decision_.target
    IN  IF action = "click" THEN
            IF Truthy(target) /\ ~IsStr(target) THEN {}
            ELSE IF ExecuteClick(decision_, drv) = "true"
                 THEN {"locator.click"} \cup WaitForStateChangeOps(drv)
                 ELSE {"locator.click"}
        ELSE IF action = "type" THEN
            IF ~IsStr(target) THEN {} ELSE {"locator.fill"}
        ELSE IF action = "navigate" THEN {"goto"}
        ELSE IF action = "wait" THEN
            IF ~IsStr(target) THEN {} ELSE {"wait_for_timeout"}
        ELSE {}

----------------------------------------------------------------------------
(* _extract_keywords and _score_element_match *)

\* str.split(): the words between runs of whitespace
RECURSIVE SplitWords(_)
SplitWords(s) ==
    LET t == LStrip(s)
        n == IF \E i \in 1..Len(t) : t[i] \in Whitespace
             THEN CHOOSE i \in 1..Len(t) :
                      t[i] \in Whitespace /\ \A j \in 1..(i - 1) : t[j] \notin Whitespace
             ELSE Len(t) + 1
    IN  IF t = <<>> THEN <<>>
        ELSE <<SubSeq(t, 1, n - 1)>> \o SplitWords(SubSeq(t, n, Len(t)))

\* " ".join(words)
RECURSIVE JoinWords(_)
JoinWords(words) ==
    IF words = <<>> THEN <<>>
    ELSE IF Len(words) = 1 THEN words[1]
    ELSE words[1] \o <<" ">> \o JoinWords(Tail(words))

\* " ".join(filter(None, parts))
JoinNonEmpty(parts) == JoinWords(SelectSeq(parts, LAMBDA part : Truthy(part)))

\* lines 496-513
Stopwords ==
    { <<"t", "h", "e">>, <<"a">>,
      <<"a", "n">>, <<"i", "n">>,
      <<"o", "n">>, <<"a", "t">>,
      <<"t", "o">>, <<"f", "o", "r">>,
      <<"o", "f">>, <<"w", "i", "t", "h">>,
      <<"b", "u", "t", "t", "o", "n">>, <<"i", "c", "o", "n">>,
      <<"c", "l", "i", "c", "k">>, <<"m", "e", "n", "u">>,
      <<"s", "e", "c", "t", "i", "o", "n">>, <<"p", "a", "g", "e">> }

\* the chunks taken from the words that are left once the stop-words are
\* removed
ChunksOfRemaining(words, size) ==
    LET remaining == SelectSeq(words, LAMBDA w : w \notin Stopwords)
    IN  IF Len(remaining) < size THEN <<>>
        ELSE [idx \in 1..(Len(remaining) - size + 1) |->
                 JoinWords(SubSeq(remaining, idx, idx + size - 1))]

\* lines 517-523 for one size: the chunks of consecutive words that hold no
\* stop-word, joined
Chunks(words, size) ==
    IF Len(words) < size THEN <<>>
    ELSE LET all_chunks == [idx \in 1..(Len(words) - size + 1) |->
                               SubSeq(words, idx, idx + size - 1)]
             kept == SelectSeq(all_chunks,
                         LAMBDA chunk : \A i \in 1..Len(chunk) : chunk[i] \notin Stopwords)
         IN  [i \in 1..Len(kept) |-> JoinWords(kept[i])]

\* list.sort(key=len, reverse=True): the words of length n and less, longest
\* first, words of one length in their original order
RECURSIVE LongestFirst(_, _)
LongestFirst(words, n) ==
    IF n = 0 THEN <<>>
    ELSE SelectSeq(words, LAMBDA w : Len(w) = n) \o LongestFirst(words, n - 1)

\* lines 531-536: first occurrences only
RECURSIVE Dedupe(_)
Dedupe(items) ==
    IF items = <<>> THEN <<>>
    ELSE LET front == Dedupe(SubSeq(items, 1, Len(items) - 1))
             last == items[Len(items)]
         IN  IF \E i \in 1..Len(front) : front[i] = last THEN front
             ELSE Append(front, last)

\* lines 488-538
ExtractKeywords(text) ==
    IF text = <<>> THEN <<>>
    ELSE LET words == SplitWords(Lower(text))
             individual_words ==
                 SelectSeq(words, LAMBDA w : w \notin Stopwords /\ Len(w) > 2)
         IN  Dedupe(Chunks(words, 3) \o Chunks(words, 2)
                    \o LongestFirst(individual_words, Len(text)))

ThreeWordScore == 100
TwoWordScore == 50
OneWordScore == 10
ExactTextBonus == 200

\* lines 546-557 for one keyword
KeywordScore(element_text, keyword) ==
    IF Contains(element_text, keyword)
    THEN (IF Len(SplitWords(keyword)) >= 3 THEN ThreeWordScore
          ELSE IF Len(SplitWords(keyword)) = 2 THEN TwoWordScore
          ELSE OneWordScore)
         + (IF keyword = Strip(element_text) THEN ExactTextBonus ELSE 0)
    ELSE 0

RECURSIVE SumScores(_, _)
SumScores(element_text, keywords) ==
    IF keywords = <<>> THEN 0
    ELSE KeywordScore(element_text, Head(keywords)) + SumScores(element_text, Tail(keywords))

\* lines 540-558
ScoreElementMatch(element_text, keywords) == SumScores(Lower(element_text), keywords)

----------------------------------------------------------------------------
(* _find_best_spatial_match *)

\* an element of the page:
\*   tag     its tag name
\*   aria    its aria-label attribute, "" when absent
\*   text    its inner text
\*   title   its title attribute, "" when absent
\*   x, y    the corner of its bounding box
\*   state   "ok"; "covered": click raises; "stale": attribute reads,
\*           bounding_box and click raise
Tag_button == <<"b", "u", "t", "t", "o", "n">>
Tag_a == <<"a">>
Tag_div == <<"d", "i", "v">>

\* lines 82 and 91
ViewportWidth == 1920
ViewportHeight == 1080

LaunchViewport == [width |-> ViewportWidth, height |-> ViewportHeight]

\* page.viewport_size of a page without a viewport: None, replaced by {}
NoViewport == [width |-> 0, height |-> 0]

ToolbarHeight == 100
RegionScore == 10
CenterScore == 5
ToolbarScore == 15

\* lines 591-602 with top, bottom, left and right read as thirds of the
\* viewport
SpatialScoreThirds(position_hint, box, width, height) ==
    (IF Contains(position_hint, <<"t", "o", "p">>) /\ 3 * box.y <= height
     THEN RegionScore ELSE 0)
    + (IF Contains(position_hint, <<"b", "o", "t", "t", "o", "m">>) /\ 3 * box.y >= 2 * height
       THEN RegionScore ELSE 0)
    + (IF Contains(position_hint, <<"l", "e", "f", "t">>) /\ 3 * box.x <= width
       THEN RegionScore ELSE 0)
    + (IF Contains(position_hint, <<"r", "i", "g", "h", "t">>) /\ 3 * box.x >= 2 * width
       THEN RegionScore ELSE 0)
    + (IF /\ Contains(position_hint, <<"c", "e", "n", "t", "e", "r">>)
          /\ width < 3 * box.x /\ 3 * box.x < 2 * width
       THEN CenterScore ELSE 0)
    + (IF Contains(position_hint, <<"t", "o", "o", "l", "b", "a", "r">>) /\ box.y <= ToolbarHeight
       THEN ToolbarScore ELSE 0)

\* lines 591-602: the comparisons with 0.2, 0.3 and 0.7 of the viewport are
\* written without fractions
SpatialScore(position_hint, box, width, height) ==
    (IF Contains(position_hint, <<"t", "o", "p">>) /\ 10 * box.y <= 2 * height
     THEN RegionScore ELSE 0)
    + (IF Contains(position_hint, <<"b", "o", "t", "t", "o", "m">>) /\ 10 * box.y >= 7 * height
       THEN RegionScore ELSE 0)
    + (IF Contains(position_hint, <<"l", "e", "f", "t">>) /\ 10 * box.x <= 3 * width
       THEN RegionScore ELSE 0)
    + (IF Contains(position_hint, <<"r", "i", "g", "h", "t">>) /\ 10 * box.x >= 7 * width
       THEN RegionScore ELSE 0)
    + (IF /\ Contains(position_hint, <<"c", "e", "n", "t", "e", "r">>)
          /\ 3 * width < 10 * box.x /\ 10 * box.x < 7 * width
       THEN CenterScore ELSE 0)
    + (IF Contains(position_hint, <<"t", "o", "o", "l", "b", "a", "r">>) /\ box.y <= ToolbarHeight
       THEN ToolbarScore ELSE 0)

\* list.sort(key=score, reverse=True)[0]: the first of the items with the
\* greatest score; items is a sequence of records with a field score
TopScored(items) ==
    CHOOSE i \in 1..Len(items) :
        /\ \A j \in 1..Len(items) : items[j].score <= items[i].score
        /\ \A j \in 1..(i - 1) : items[j].score < items[i].score

\* lines 560-611: the index in elements of the element returned, 0 for None;
\* position is location_hint.get("position")
FindBestSpatialMatch(elements, position, viewport) ==
    LET position_hint == IF Truthy(position) THEN Lower(position) ELSE <<>>
        indices == [i \in 1..Len(elements) |-> i]
        boxed == SelectSeq(indices, LAMBDA i : elements[i].state # "stale")
        all_scored == [k \in 1..Len(boxed) |->
                          [element |-> boxed[k],
                           score |-> SpatialScore(position_hint, elements[boxed[k]],
                                                  viewport.width, viewport.height)]]
        scored == SelectSeq(all_scored, LAMBDA item : item.score > 0)
    IN  IF elements = <<>> \/ viewport = NoViewport THEN 0
        ELSE IF position_hint = <<>> THEN 0
        ELSE IF viewport.width = 0 \/ viewport.height = 0 THEN 0
        ELSE IF scored = <<>> THEN 0
        ELSE scored[TopScored(scored)].element

----------------------------------------------------------------------------
(* _execute_click *)

\* line 413
ConfidenceFloor == 50

\* the number of keywords the selector tier uses (line 440)
TopKeywords == 3

\* the page as _execute_click meets it:
\*   elements   its elements in document order
\*   enumerate  locator(...).all(): "ok" or "raise"
\*   viewport   page.viewport_size
\* The locators below follow Playwright: .first is the first match in
\* document order, and a click on no match or on an element that is not
\* "ok" raises (timeout).
FirstOf(indices) ==
    IF indices = {} THEN 0
    ELSE CHOOSE i \in indices : \A j \in indices : i <= j

\* text matching of get_by_text(..., exact=False), :has-text() and
\* [attr*="..." i]: a substring, whatever the case
HasText(s, sub) == Contains(Lower(s), Lower(sub))

\* the accessible name get_by_role matches on
AccessibleName(e) == IF e.aria # <<>> THEN e.aria ELSE e.text

\* whether the locator of a strategy matches element e
Matches(strategy, arg, e) ==
    CASE strategy = "exact text" -> Strip(e.text) = arg
      [] strategy = "exact aria-label" -> e.aria = arg
      [] strategy = "exact button text" -> e.tag = Tag_button /\ HasText(e.text, arg)
      [] strategy = "aria-label contains" -> e.aria # <<>> /\ HasText(e.aria, arg)
      [] strategy = "text contains" -> e.text # <<>> /\ HasText(e.text, arg)
      [] strategy = "partial text" -> e.text # <<>> /\ HasText(e.text, arg)
      [] strategy = "link or button" ->
             e.tag \in {Tag_a, Tag_button} /\ HasText(e.text, arg)
      [] strategy = "CSS selector" -> e.tag = Lower(arg)
      [] strategy = "aria-label" -> e.aria # <<>> /\ HasText(e.aria, arg)
      [] strategy = "role button" ->
             e.tag = Tag_button /\ HasText(AccessibleName(e), arg)

\* the element a strategy's locator designates, 0 for none
Locate(strategy, arg, elements) ==
    FirstOf({ i \in 1..Len(elements) : Matches(strategy, arg, elements[i]) })

ClickLands(elements, i) == i > 0 /\ elements[i].state = "ok"

ClickOp(tier, strategy, arg, elements, i) ==
    [tier |-> tier, strategy |-> strategy, arg |-> arg, op |-> "click",
     element |-> i, ok |-> ClickLands(elements, i)]

EnumerateOp(tier, dom) ==
    [tier |-> tier, strategy |-> tier, arg |-> <<>>, op |-> "enumerate",
     element |-> 0, ok |-> dom.enumerate = "ok"]

RECURSIVE TryAll(_, _, _, _, _)

\* the loops without their try: the first click that raises ends the tier
TryAllAbortsOnException(tier, attempts, i, elements, ops) ==
    IF i > Len(attempts) THEN [clicked |-> FALSE, ops |-> ops]
    ELSE LET found == Locate(attempts[i][1], attempts[i][2], elements)
             done == Append(ops, ClickOp(tier, attempts[i][1], attempts[i][2],
                                         elements, found))
         IN  [clicked |-> ClickLands(elements, found), ops |-> done]

\* the loops without their return: every strategy is tried
TryAllKeepsGoing(tier, attempts, i, elements, ops) ==
    IF i > Len(attempts) THEN [clicked |-> FALSE, ops |-> ops]
    ELSE LET found == Locate(attempts[i][1], attempts[i][2], elements)
             done == Append(ops, ClickOp(tier, attempts[i][1], attempts[i][2],
                                         elements, found))
             rest == TryAll(tier, attempts, i + 1, elements, done)
         IN  [clicked |-> ClickLands(elements, found) \/ rest.clicked, ops |-> rest.ops]

\* the loops of lines 376-383, 440-457 and 472-479: the strategies from
\* index i on, each in its own try, until one click lands; attempts is a
\* sequence of <<strategy, argument>>
TryAll(tier, attempts, i, elements, ops) ==
    IF i > Len(attempts) THEN [clicked |-> FALSE, ops |-> ops]
    ELSE LET found == Locate(attempts[i][1], attempts[i][2], elements)
             done == Append(ops, ClickOp(tier, attempts[i][1], attempts[i][2],
                                         elements, found))
         IN  IF ClickLands(elements, found) THEN [clicked |-> TRUE, ops |-> done]
             ELSE TryAll(tier, attempts, i + 1, elements, done)

\* lines 368-374
ExactStrategies(target) ==
    IF target = <<>> THEN <<>>
    ELSE << <<"exact text", target>>, <<"exact aria-label", target>>,
            <<"exact button text", target>> >>

\* lines 440-444: two selectors for each of the first three keywords
RECURSIVE KeywordStrategies(_)
KeywordStrategies(keywords) ==
    IF keywords = <<>> THEN <<>>
    ELSE << <<"aria-label contains", Head(keywords)>>,
            <<"text contains", Head(keywords)>> >>
         \o KeywordStrategies(Tail(keywords))

\* lines 459-470
FallbackStrategies(target) ==
    IF target = <<>> THEN <<>>
    ELSE << <<"partial text", target>>, <<"link or button", target>>,
            <<"CSS selector", target>>, <<"aria-label", target>>,
            <<"role button", target>> >>

\* the selector of lines 390-392 and the one of line 426, on a page whose
\* buttons and links are its button and a elements: their indices
Clickables(elements) ==
    SelectSeq([i \in 1..Len(elements) |-> i],
              LAMBDA i : elements[i].tag \in {Tag_button, Tag_a})

\* line 413 without the floor
AboveFloorAlways(score) == score > 0

\* line 413
AboveFloor(score) == score >= ConfidenceFloor

\* lines 395-407: the candidates of the semantic tier with their scores, in
\* document order; an element whose attributes cannot be read is skipped
SemanticCandidates(keywords, elements) ==
    LET readable == SelectSeq(Clickables(elements),
                              LAMBDA i : elements[i].state # "stale")
        combined(e) == JoinNonEmpty(<<e.aria, e.text, e.title>>)
        all_scored == [k \in 1..Len(readable) |->
                          [element |-> readable[k],
                           score |-> IF combined(elements[readable[k]]) = <<>> THEN 0
                                     ELSE ScoreElementMatch(combined(elements[readable[k]]),
                                                            keywords)]]
    IN  SelectSeq(all_scored, LAMBDA item : item.score > 0)

\* lines 389-422
SemanticTier(keywords, dom, ops) ==
    LET listed == Append(ops, EnumerateOp("semantic", dom))
        scored_matches == SemanticCandidates(keywords, dom.elements)
        top == scored_matches[TopScored(scored_matches)]
    IN  IF dom.enumerate = "raise" THEN [clicked |-> FALSE, ops |-> listed]
        ELSE IF scored_matches = <<>> THEN [clicked |-> FALSE, ops |-> listed]
        ELSE IF ~AboveFloor(top.score) THEN [clicked |-> FALSE, ops |-> listed]
        ELSE [clicked |-> ClickLands(dom.elements, top.element),
              ops |-> Append(listed, ClickOp("semantic", "semantic match", <<>>,
                                             dom.elements, top.element))]

\* the spatial tier reporting success for a click that raised
SpatialTierTrustsClick(location, dom, ops) ==
    LET listed == Append(ops, EnumerateOp("spatial", dom))
        candidates == Clickables(dom.elements)
        match == FindBestSpatialMatch([k \in 1..Len(candidates) |->
                                           dom.elements[candidates[k]]],
                                      location.position, dom.viewport)
    IN  IF location.kind = "empty" THEN [clicked |-> FALSE, ops |-> ops]
        ELSE IF dom.enumerate = "raise" THEN [clicked |-> FALSE, ops |-> listed]
        ELSE IF location.kind = "other" THEN [clicked |-> FALSE, ops |-> listed]
        ELSE IF match = 0 THEN [clicked |-> FALSE, ops |-> listed]
        ELSE [clicked |-> TRUE,
              ops |-> Append(listed, ClickOp("spatial", "spatial match", <<>>,
                                             dom.elements, candidates[match]))]

\* lines 424-438; location is decision.get("location") as
\*   [kind |-> "empty"]                  None or {}
\*   [kind |-> "dict", position |-> p]   a dict whose "position" is p
\*   [kind |-> "other"]                  a value without .get
SpatialTier(location, dom, ops) ==
    LET listed == Append(ops, EnumerateOp("spatial", dom))
        candidates == Clickables(dom.elements)
        match == FindBestSpatialMatch([k \in 1..Len(candidates) |->
                                           dom.elements[candidates[k]]],
                                      location.position, dom.viewport)
    IN  IF location.kind = "empty" THEN [clicked |-> FALSE, ops |-> ops]
        ELSE IF dom.enumerate = "raise" THEN [clicked |-> FALSE, ops |-> listed]
        ELSE IF location.kind = "other" THEN [clicked |-> FALSE, ops |-> listed]
        ELSE IF match = 0 THEN [clicked |-> FALSE, ops |-> listed]
        ELSE [clicked |-> ClickLands(dom.elements, candidates[match]),
              ops |-> Append(listed, ClickOp("spatial", "spatial match", <<>>,
                                             dom.elements, candidates[match]))]

\* lines 359-486: the result of _execute_click and the page operations it
\* performs, in order; a target that cannot be stripped (line 361) and a
\* description that cannot be joined (line 385) raise
ExecuteClickOn(decision_, dom) ==
    LET target == IF IsStr(decision_.target) THEN Strip(decision_.target) ELSE <<>>
        description == decision_.description
        exact == TryAll("exact", ExactStrategies(target), 1, dom.elements, <<>>)
        keywords == ExtractKeywords(JoinNonEmpty(<<target, description>>))
        semantic == SemanticTier(keywords, dom, exact.ops)
        spatial == SpatialTier(decision_.location, dom, semantic.ops)
        top_keywords == SubSeq(keywords, 1, IF Len(keywords) < TopKeywords
                                            THEN Len(keywords) ELSE TopKeywords)
        by_keyword == TryAll("keyword", KeywordStrategies(top_keywords), 1,
                             dom.elements, spatial.ops)
        fallback == TryAll("fallback", FallbackStrategies(target), 1,
                           dom.elements, by_keyword.ops)
    IN  IF decision_.target = NonStr THEN [result |-> "raise", ops |-> <<>>]
        ELSE IF exact.clicked THEN [result |-> "true", ops |-> exact.ops]
        ELSE IF description = NonStr THEN [result |-> "raise", ops |-> exact.ops]
        ELSE IF semantic.clicked THEN [result |-> "true", ops |-> semantic.ops]
        ELSE IF spatial.clicked THEN [result |-> "true", ops |-> spatial.ops]
        ELSE IF by_keyword.clicked THEN [result |-> "true", ops |-> by_keyword.ops]
        ELSE IF fallback.clicked THEN [result |-> "true", ops |-> fallback.ops]
        ELSE [result |-> "false", ops |-> fallback.ops]

----------------------------------------------------------------------------
(* _execute_type *)

\* line 642
Placeholder == <<"T", "e", "s", "t", " ", "P", "r", "o", "j", "e", "c", "t">>

\* lines 635-642 with the default applied only when the target holds no "|"
TypeArgumentsDefaultBeforeSplit(target, text) ==
    IF Truthy(text) THEN [raise |-> FALSE, target |-> target, text |-> text]
    ELSE IF ~IsStr(target) THEN [raise |-> TRUE, target |-> target, text |-> text]
    ELSE IF Contains(target, <<"|">>)
         THEN [raise |-> FALSE, target |-> SplitOnce(target, "|")[1],
               text |-> SplitOnce(target, "|")[2]]
         ELSE [raise |-> FALSE, target |-> target, text |-> Placeholder]

\* lines 635-642: the target and the text the attempts work with; "|" in
\* target raises for a target that is not a string
TypeArguments(target, text) ==
    IF Truthy(text) THEN [raise |-> FALSE, target |-> target, text |-> text]
    ELSE IF ~IsStr(target) THEN [raise |-> TRUE, target |-> target, text |-> text]
    ELSE LET split == Contains(target, <<"|">>)
             target1 == IF split THEN SplitOnce(target, "|")[1] ELSE target
             text1 == IF split THEN SplitOnce(target, "|")[2] ELSE text
         IN  [raise |-> FALSE, target |-> target1,
              text |-> IF Truthy(text1) THEN text1 ELSE Placeholder]

\* lines 644-655
GenericKeywords ==
    { <<"i", "n", "p", "u", "t">>,
      <<"t", "e", "x", "t", "a", "r", "e", "a">>,
      <<"t", "e", "x", "t", " ", "f", "i", "e", "l", "d">>,
      <<"f", "i", "e", "l", "d">>,
      <<"t", "e", "x", "t", " ", "b", "o", "x">>,
      <<"t", "e", "x", "t", "b", "o", "x">>,
      <<"t", "e", "x", "t", " ", "i", "n", "p", "u", "t">>,
      <<"n", "a", "m", "e">>,
      <<"t", "i", "t", "l", "e">>,
      <<"d", "e", "s", "c", "r", "i", "p", "t", "i", "o", "n">> }

\* line 659
CssLikePrefixes ==
    { <<"#">>,
      <<".">>,
      <<"[">>,
      <<"i", "n", "p", "u", "t">>,
      <<"t", "e", "x", "t", "a", "r", "e", "a">>,
      <<"s", "e", "l", "e", "c", "t">>,
      <<"/", "/">>,
      <<"d", "i", "v">> }

\* lines 656-660
IsGeneric(target) == Strip(Lower(target)) \in GenericKeywords

IsCssSelector(target) == \E prefix \in CssLikePrefixes : StartsWith(target, prefix)

\* lines 662-709: the strategy names of ordered_attempts; the second
\* ("any contenteditable", "[contenteditable='true']") of a generic target is
\* the one pair that lines 702-709 drop
TypeAttempts(target) ==
    LET fallbacks == <<"any visible input", "first input or textarea",
                       "contenteditable with placeholder">>
    IN  IF IsGeneric(target) THEN
            <<"first visible input", "first visible textarea",
              "first contenteditable", "any input", "any textarea",
              "any contenteditable", "role textbox">> \o fallbacks
        ELSE IF IsCssSelector(target) THEN
            <<"css selector">> \o fallbacks \o <<"any contenteditable">>
        ELSE
            <<"placeholder", "data-placeholder", "aria-label",
              "aria-label partial", "data-testid", "name attribute",
              "id attribute", "label text">> \o fallbacks \o <<"any contenteditable">>

\* lines 713-766 for the attempts from index i on; form says how the page
\* answers:
\*   attached  the strategies whose locator finds an attached element
\*   fill      locator.fill
\*   focus     locator.click of the fallback path
\*   meta      page.keyboard.press("Meta+A")
\*   control   page.keyboard.press("Control+A")
\*   keys      page.keyboard.type
RECURSIVE TypeFrom(_, _, _, _, _)

\* the attempts without the keyboard fallback: a fill that raises ends the
\* attempt
TypeFromFillOnly(attempts, i, text, form, ops) ==
    IF i > Len(attempts) THEN [result |-> "false", ops |-> ops]
    ELSE
    LET name == attempts[i]
        op(kind, value, ok) == [op |-> kind, on |-> name, value |-> value, ok |-> ok]
        waited == Append(ops, op("wait_for", <<>>, name \in form.attached))
        filled == Append(waited, op("fill", text, IsStr(text) /\ form.fill = "ok"))
    IN  IF name \notin form.attached THEN TypeFrom(attempts, i + 1, text, form, waited)
        ELSE IF IsStr(text) /\ form.fill = "ok" THEN [result |-> "true", ops |-> filled]
        ELSE TypeFrom(attempts, i + 1, text, form, filled)

TypeFrom(attempts, i, text, form, ops) ==
    IF i > Len(attempts) THEN [result |-> "false", ops |-> ops]
    ELSE
    LET name == attempts[i]
        op(kind, value, ok) == [op |-> kind, on |-> name, value |-> value, ok |-> ok]
        waited == Append(ops, op("wait_for", <<>>, name \in form.attached))
        filled == Append(waited, op("fill", text, IsStr(text) /\ form.fill = "ok"))
        focused == Append(filled, op("click", <<>>, form.focus = "ok"))
        selected == IF form.meta = "ok"
                    THEN Append(focused, op("press Meta+A", <<>>, TRUE))
                    ELSE focused \o <<op("press Meta+A", <<>>, FALSE),
                                      op("press Control+A", <<>>, form.control = "ok")>>
        typed == Append(selected, op("type", text, IsStr(text) /\ form.keys = "ok"))
    IN  IF name \notin form.attached THEN TypeFrom(attempts, i + 1, text, form, waited)
        ELSE IF IsStr(text) /\ form.fill = "ok" THEN [result |-> "true", ops |-> filled]
        ELSE IF IsStr(text) /\ form.keys = "ok" THEN [result |-> "true", ops |-> typed]
        ELSE TypeFrom(attempts, i + 1, text, form, typed)

\* lines 633-782: the result of _execute_type and the page operations it
\* performs, in order
ExecuteTypeOn(target, text, form) ==
    LET args == TypeArguments(target, text)
    IN  IF args.raise \/ ~IsStr(args.target) THEN [result |-> "raise", ops |-> <<>>]
        ELSE TypeFrom(TypeAttempts(args.target), 1, args.text, form, <<>>)

----------------------------------------------------------------------------
(* _parse_decision *)

\* str.find of a substring, counted from 1; 0 when it is absent
FindSub(s, sub) ==
    IF Contains(s, sub)
    THEN CHOOSE i \in 1..(Len(s) - Len(sub) + 1) :
             /\ SubSeq(s, i, i + Len(sub) - 1) = sub
             /\ \A j \in 1..(i - 1) : SubSeq(s, j, j + Len(sub) - 1) # sub
    ELSE 0

\* s.split(sub, 1)[1] of a string that holds sub
AfterFirst(s, sub) == SubSeq(s, FindSub(s, sub) + Len(sub), Len(s))

\* s.split(sub, 1)[0]
BeforeFirst(s, sub) ==
    IF Contains(s, sub) THEN SubSeq(s, 1, FindSub(s, sub) - 1) ELSE s

Braces == {"{", "}"}

QuotedAction == <<"\"", "a", "c", "t", "i", "o", "n", "\"">>

\* whether the pattern \{[^{}]*"action"[^{}]*\} of line 919 matches from
\* index i: the next brace after the "{" at i is a "}", and "action" in
\* quotes stands between them
MatchesAt(s, i) ==
    /\ s[i] = "{"
    /\ \E j \in (i + 1)..Len(s) :
           /\ s[j] = "}"
           /\ \A k \in (i + 1)..(j - 1) : s[k] \notin Braces
           /\ Contains(SubSeq(s, i + 1, j - 1), QuotedAction)

\* re.search of line 919: group(0) of the leftmost match, or the text itself
\* when there is none (lines 920-921)
ActionFragment(s) ==
    IF \E i \in 1..Len(s) : MatchesAt(s, i)
    THEN LET i == CHOOSE i \in 1..Len(s) :
                      MatchesAt(s, i) /\ \A h \in 1..(i - 1) : ~MatchesAt(s, h)
             j == CHOOSE j \in (i + 1)..Len(s) :
                      s[j] = "}" /\ \A k \in (i + 1)..(j - 1) : s[k] \notin Braces
         IN  SubSeq(s, i, j)
    ELSE s

\* the grave accent, the character of a code fence
Backtick == "<grave>"

Fence == <<Backtick, Backtick, Backtick>>

FenceJson == Fence \o <<"j", "s", "o", "n">>

\* lines 924-929
JsonStr(text) ==
    IF Contains(text, FenceJson)
    THEN Strip(BeforeFirst(AfterFirst(text, FenceJson), Fence))
    ELSE IF Contains(text, Fence)
    THEN Strip(BeforeFirst(AfterFirst(text, Fence), Fence))
    ELSE text

\* the documents json.loads meets below
J_click_Next ==
    <<"{", "\"", "a", "c", "t", "i", "o", "n", "\"", ":", "\"", "c", "l",
      "i", "c", "k", "\"", ",", "\"", "t", "a", "r", "g", "e", "t", "\"",
      ":", "\"", "N", "e", "x", "t", "\"", "}">>

J_null_target ==
    <<"{", "\"", "a", "c", "t", "i", "o", "n", "\"", ":", "\"", "c", "l",
      "i", "c", "k", "\"", ",", "\"", "t", "a", "r", "g", "e", "t", "\"",
      ":", "n", "u", "l", "l", "}">>

J_not_json ==
    <<"{", "\"", "a", "c", "t", "i", "o", "n", "\"", ":", "c", "l", "i",
      "c", "k", "}">>

J_no_action ==
    <<"{", "\"", "t", "a", "r", "g", "e", "t", "\"", ":", "\"", "N", "e",
      "x", "t", "\"", "}">>

J_number ==
    <<"4", "2">>

T_Next_word == <<"N", "e", "x", "t">>

\* json.loads (line 930) on the strings the parser is given here: a dict
\* with the keys of the document, a value that is not a dict, or an
\* exception for everything that is not one JSON document
JsonLoads(json_str) ==
    LET doc == Strip(json_str)
    IN  IF doc = J_click_Next
        THEN [kind |-> "dict", value |-> [action |-> "click", target |-> T_Next_word]]
        ELSE IF doc = J_null_target
        THEN [kind |-> "dict", value |-> [action |-> "click", target |-> Null]]
        ELSE IF doc = J_no_action
        THEN [kind |-> "dict", value |-> [target |-> T_Next_word]]
        ELSE IF doc = J_number
        THEN [kind |-> "other", value |-> <<>>]
        ELSE [kind |-> "raise", value |-> <<>>]

\* lines 935-945 with a click as the last resort
InferGuessesClick(text) ==
    LET text_lower == Lower(text)
        has(word) == Contains(text_lower, word)
    IN  IF has(<<"d", "o", "n", "e">>) \/ has(<<"c", "o", "m", "p", "l", "e", "t", "e">>) \/ has(<<"s", "u", "c", "c", "e", "s", "s">>)
        THEN [action |-> "done", description |-> "Inferred completion from response"]
        ELSE IF has(<<"c", "l", "i", "c", "k">>) /\ has(<<"s", "u", "b", "m", "i", "t">>)
        THEN [action |-> "click", target |-> <<"S", "u", "b", "m", "i", "t">>,
              description |-> "Inferred from response"]
        ELSE [action |-> "click", target |-> T_Next_word,
              description |-> "Inferred from response"]

\* lines 935-945: the decision inferred from a text that is not JSON
Infer(text) ==
    LET text_lower == Lower(text)
        has(word) == Contains(text_lower, word)
    IN  IF has(<<"d", "o", "n", "e">>) \/ has(<<"c", "o", "m", "p", "l", "e", "t", "e">>) \/ has(<<"s", "u", "c", "c", "e", "s", "s">>)
        THEN [action |-> "done", description |-> "Inferred completion from response"]
        ELSE IF has(<<"l", "o", "g", "i", "n">>) \/ has(<<"s", "i", "g", "n", " ", "i", "n">>)
                \/ has(<<"a", "u", "t", "h", "e", "n", "t", "i", "c", "a", "t", "e">>)
        THEN [action |-> "done", description |-> "Login required - stopping"]
        ELSE IF has(<<"c", "l", "i", "c", "k">>) /\ has(<<"n", "e", "x", "t">>)
        THEN [action |-> "click", target |-> T_Next_word,
              description |-> "Inferred from response"]
        ELSE IF has(<<"c", "l", "i", "c", "k">>) /\ has(<<"s", "u", "b", "m", "i", "t">>)
        THEN [action |-> "click", target |-> <<"S", "u", "b", "m", "i", "t">>,
              description |-> "Inferred from response"]
        ELSE [action |-> "done", description |-> "Parse error - stopping workflow"]

\* dict.setdefault: the value of a key that is present is kept, None too
SetDefault(dict, key, default) ==
    IF key \in DOMAIN dict THEN dict[key] ELSE default

\* lines 947-951; {} is written "none"
WithDefaults(dict) ==
    [action |-> SetDefault(dict, "action", "done"),
     target |-> SetDefault(dict, "target", <<>>),
     text |-> SetDefault(dict, "text", <<>>),
     description |-> SetDefault(dict, "description", "Next step"),
     location |-> SetDefault(dict, "location", "none")]

\* lines 916-952: the decision returned, or the exception of setdefault on
\* a value that is not a dict
ParseDecision(raw) ==
    LET text == ActionFragment(Strip(raw))
        loaded == JsonLoads(JsonStr(text))
    IN  IF loaded.kind = "raise"
        THEN [result |-> "ok", decision |-> WithDefaults(Infer(text))]
        ELSE IF loaded.kind = "other"
        THEN [result |-> "raise", decision |-> [action |-> "<none>"]]
        ELSE [result |-> "ok", decision |-> WithDefaults(loaded.value)]

----------------------------------------------------------------------------
(* capture_workflow: the run controller *)

NoDecision == [action |-> "<none>", target |-> <<>>, text |-> <<>>,
               description |-> "", location |-> "none"]

NoOutcome == [none |-> TRUE]

\* what _ask_claude can return in a run: decisions as _parse_decision leaves
\* them (every key present, a JSON null kept as None)
RunDecisions ==
    { [action |-> "click", target |-> <<"N", "e", "x", "t">>, text |-> <<>>,
       description |-> "go on", location |-> "none"],
      [action |-> "click", target |-> <<" ", "n", "e", "x", "t">>, text |-> <<>>,
       description |-> "go on", location |-> "none"],
      [action |-> "type", target |-> <<"b">>, text |-> <<"x">>,
       description |-> "fill", location |-> "none"],
      [action |-> "hover", target |-> <<"N", "e", "x", "t">>, text |-> <<>>,
       description |-> "point", location |-> "none"],
      [action |-> "click", target |-> Null, text |-> <<>>,
       description |-> "go on", location |-> "none"],
      [action |-> "done", target |-> <<>>, text |-> <<>>,
       description |-> "finished", location |-> "none"] }

\* the page behaviours that matter to one decision
PagesFor(d) ==
    IF d.action = "click" THEN
        { [CalmPage EXCEPT !.click = "false"],
          CalmPage,
          [CalmPage EXCEPT !.url_changed = FALSE],
          [CalmPage EXCEPT !.url_changed = FALSE, !.idle = "raise"],
          [CalmPage EXCEPT !.url_changed = FALSE, !.idle = "raise",
                           !.pause = "raise"] }
    ELSE IF d.action = "type" THEN
        { CalmPage, [CalmPage EXCEPT !.type = "false"] }
    ELSE IF d.action = "navigate" THEN
        { CalmPage, [CalmPage EXCEPT !.goto = "raise"] }
    ELSE IF d.action = "wait" THEN
        { CalmPage, [CalmPage EXCEPT !.wait = "raise"] }
    ELSE { CalmPage }

\* line 46: max_steps or Config.MAX_STEPS (None and 0 are falsy); the
\* argument is given as an integer or left None
EffectiveMaxSteps(given, arg, config_max_steps) ==
    IF ~given \/ arg = 0 THEN config_max_steps ELSE arg

\* line 145: a done intent goes to the gate, every other one to the loop
\* guard and to _execute_action
IsDone(d) == d.action = "done"

\* line 146
DoneGateOffByOne(successful, minimum) == successful + 1 < minimum

DoneGateRejects(successful, minimum) == successful < minimum

\* lines 184-188
FailureReasonForgotten(success, reason) == reason

FailureReasonAfter(success, reason) ==
    IF ~success /\ reason = "" THEN "action_failed" ELSE reason

\* lines 212-215
FinalReasonNoBudgetRule(completed, reason, successful) ==
    IF successful = 0 /\ reason = "" THEN "no_actions_executed" ELSE reason

FinalReasonNoZeroRule(completed, reason, successful) ==
    IF ~completed /\ reason = "" THEN "max_steps_reached" ELSE reason

FinalReason(completed, reason, successful) ==
    LET r1 == IF ~completed /\ reason = "" THEN "max_steps_reached" ELSE reason
    IN  IF successful = 0 /\ r1 = "" THEN "no_actions_executed" ELSE r1

\* lines 217-270 without the test of successful_actions == 0
RunOutcomeTrustsDone(completed, reason, successful, steps, shots, history) ==
    IF ~completed
    THEN [success |-> FALSE, reason |-> FinalReason(completed, reason, successful),
          total_steps |-> steps, screenshots |-> shots,
          action_history |-> history, successful_actions |-> successful]
    ELSE [success |-> TRUE, reason |-> "completed",
          total_steps |-> steps, screenshots |-> shots,
          action_history |-> history, successful_actions |-> successful]

\* lines 217-270: the record returned when the loop is left normally
RunOutcome(completed, reason, successful, steps, shots, history) ==
    IF ~completed \/ successful = 0
    THEN [success |-> FALSE, reason |-> FinalReason(completed, reason, successful),
          total_steps |-> steps, screenshots |-> shots,
          action_history |-> history, successful_actions |-> successful]
    ELSE [success |-> TRUE, reason |-> "completed",
          total_steps |-> steps, screenshots |-> shots,
          action_history |-> history, successful_actions |-> successful]

\* lines 284-294: the record returned by the except clause
ExceptionOutcome(steps, shots, history) ==
    [success |-> FALSE, error |-> "exception", total_steps |-> steps,
     screenshots |-> shots, action_history |-> history]

\* the record of a rejected done written as a failed action
RejectedRecordAsFailed(step) ==
    [step |-> step, action |-> "done", target |-> <<>>, text |-> <<>>,
     description |-> "Attempted to mark done before completing the required number of actions.",
     status |-> "failed"]

\* lines 154-165
RejectedRecord(step) ==
    [step |-> step, action |-> "done", target |-> <<>>, text |-> <<>>,
     description |-> "Attempted to mark done before completing the required number of actions.",
     status |-> "rejected"]

\* every executed action recorded as a success
ActionRecordAlwaysSuccess(step, d, success) ==
    [step |-> step, action |-> d.action, target |-> d.target, text |-> d.text,
     description |-> d.description, status |-> "success"]

\* lines 194-203
ActionRecord(step, d, success) ==
    [step |-> step, action |-> d.action, target |-> d.target, text |-> d.text,
     description |-> d.description,
     status |-> IF success THEN "success" ELSE "failed"]

\* lines 189-192: a successful action counted twice
CountSuccessTwice(success, successful) ==
    IF success THEN successful + 2 ELSE successful

\* lines 189-192
CountSuccess(success, successful) ==
    IF success THEN successful + 1 ELSE successful

\* the record put in front of the history
AppendRecordInFront(history, record) == <<record>> \o history

\* lines 154 and 194: action_history.append
AppendRecord(history, record) == Append(history, record)

FnIdle == fn = "" /\ fin = <<>> /\ fout = "none"

Init ==
    /\ pc = "start"
    /\ \E given \in BOOLEAN, arg \in (-1)..MaxSteps, config_max_steps \in (-1)..MaxSteps :
           max_steps = EffectiveMaxSteps(given, arg, config_max_steps)
    /\ min_actions \in (-1)..MaxMinActions
    /\ step_count = 0
    /\ successful_actions = 0
    /\ workflow_completed = FALSE
    /\ failure_reason = ""
    /\ action_history = <<>>
    /\ screenshots = <<>>
    /\ decision = NoDecision
    /\ outcome = NoOutcome
    /\ context = "none"
    /\ oracle_calls = 0
    /\ exec_calls = 0
    /\ close_calls = 0
    /\ FnIdle

\* lines 76-92: the Chrome channel, then the bundled Chromium; a failure of
\* the second launch is outside every try block
Launch ==
    /\ pc = "start"
    /\ \E chrome \in {"ok", "raise"}, bundled \in {"ok", "raise"} :
           IF chrome = "ok" \/ bundled = "ok"
           THEN context' = "open" /\ pc' = "launched"
           ELSE context' = context /\ pc' = "raised"
    /\ UNCHANGED <<max_steps, min_actions, step_count, successful_actions,
                   workflow_completed, failure_reason, action_history,
                   screenshots, decision, outcome, oracle_calls, exec_calls,
                   close_calls>>
    /\ UNCHANGED fnVars

\* lines 104-105: context.pages / context.new_page(), outside every try block
GetPage ==
    /\ pc = "launched"
    /\ \E page \in {"ok", "raise"} :
           pc' = IF page = "ok" THEN "goto" ELSE "raised"
    /\ UNCHANGED <<max_steps, min_actions, step_count, successful_actions,
                   workflow_completed, failure_reason, action_history,
                   screenshots, decision, outcome, context, oracle_calls,
                   exec_calls, close_calls>>
    /\ UNCHANGED fnVars

\* leaving the for loop without break (lines 212-270)
LeaveLoop(completed, reason, successful, steps, shots, history) ==
    /\ failure_reason' = FinalReason(completed, reason, successful)
    /\ outcome' = RunOutcome(completed, reason, successful, steps, shots, history)
    /\ pc' = "closing"

\* the loop left as soon as an action has failed
EndIterationStopsOnFailure(step, reason, successful, shots, history) ==
    IF step < max_steps /\ reason = ""
    THEN /\ failure_reason' = reason
         /\ outcome' = outcome
         /\ pc' = "loop"
    ELSE LeaveLoop(FALSE, reason, successful, step, shots, history)

\* the end of one iteration (lines 205-210 and the loop head, line 115): the
\* next one, or the end of the loop
EndIteration(step, reason, successful, shots, history) ==
    IF step < max_steps
    THEN /\ failure_reason' = reason
         /\ outcome' = outcome
         /\ pc' = "loop"
    ELSE LeaveLoop(FALSE, reason, successful, step, shots, history)

\* lines 107-115: page.goto and the first pause, then the loop head
Navigate ==
    /\ pc = "goto"
    /\ \E goto \in {"ok", "raise"} :
           IF goto = "raise"
           THEN /\ outcome' = ExceptionOutcome(step_count, screenshots, action_history)
                /\ pc' = "closing"
                /\ failure_reason' = failure_reason
           ELSE IF max_steps >= 1
           THEN /\ pc' = "loop"
                /\ outcome' = outcome
                /\ failure_reason' = failure_reason
           ELSE LeaveLoop(workflow_completed, failure_reason, successful_actions,
                          step_count, screenshots, action_history)
    /\ UNCHANGED <<max_steps, min_actions, step_count, successful_actions,
                   workflow_completed, action_history, screenshots, decision,
                   context, oracle_calls, exec_calls, close_calls>>
    /\ UNCHANGED fnVars

\* lines 116-132: page.screenshot or page.title raises
StepScreenshotFails ==
    /\ pc = "loop"
    /\ step_count' = step_count + 1
    /\ decision' = NoDecision
    /\ outcome' = ExceptionOutcome(step_count', screenshots, action_history)
    /\ pc' = "closing"
    /\ UNCHANGED <<max_steps, min_actions, successful_actions, workflow_completed,
                   failure_reason, action_history, screenshots, context,
                   oracle_calls, exec_calls, close_calls>>
    /\ UNCHANGED fnVars

\* lines 134-140: _ask_claude raises (the request, or a response that is not
\* a JSON object)
StepOracleFails ==
    /\ pc = "loop"
    /\ step_count' = step_count + 1
    /\ screenshots' = Append(screenshots, step_count')
    /\ oracle_calls' = oracle_calls + 1
    /\ decision' = NoDecision
    /\ outcome' = ExceptionOutcome(step_count', screenshots', action_history)
    /\ pc' = "closing"
    /\ UNCHANGED <<max_steps, min_actions, successful_actions, workflow_completed,
                   failure_reason, action_history, context, exec_calls, close_calls>>
    /\ UNCHANGED fnVars

\* lines 145-166: done below the threshold
StepDoneRejected ==
    /\ pc = "loop"
    /\ \E d \in RunDecisions :
        /\ IsDone(d)
        /\ DoneGateRejects(successful_actions, min_actions)
        /\ decision' = d
        /\ step_count' = step_count + 1
        /\ screenshots' = Append(screenshots, step_count')
        /\ oracle_calls' = oracle_calls + 1
        /\ action_history' = AppendRecord(action_history, RejectedRecord(step_count'))
        /\ EndIteration(step_count', failure_reason, successful_actions,
                        screenshots', action_history')
    /\ UNCHANGED <<max_steps, min_actions, successful_actions, workflow_completed,
                   context, exec_calls, close_calls>>
    /\ UNCHANGED fnVars

\* lines 145-171: done at or above the threshold
StepDoneAccepted ==
    /\ pc = "loop"
    /\ \E d \in RunDecisions :
        /\ IsDone(d)
        /\ ~DoneGateRejects(successful_actions, min_actions)
        /\ decision' = d
        /\ step_count' = step_count + 1
        /\ screenshots' = Append(screenshots, step_count')
        /\ oracle_calls' = oracle_calls + 1
        /\ workflow_completed' = TRUE
        /\ LeaveLoop(TRUE, failure_reason, successful_actions, step_count',
                     screenshots', action_history)
    /\ UNCHANGED <<max_steps, min_actions, successful_actions, action_history,
                   context, exec_calls, close_calls>>
    /\ UNCHANGED fnVars

\* line 173: _is_looping raises on a target that is not a string
StepLoopCheckRaises ==
    /\ pc = "loop"
    /\ \E d \in RunDecisions :
        /\ ~IsDone(d)
        /\ IsLooping(action_history, d) = "raise"
        /\ decision' = d
        /\ step_count' = step_count + 1
        /\ screenshots' = Append(screenshots, step_count')
        /\ oracle_calls' = oracle_calls + 1
        /\ outcome' = ExceptionOutcome(step_count', screenshots', action_history)
        /\ pc' = "closing"
    /\ UNCHANGED <<max_steps, min_actions, successful_actions, workflow_completed,
                   failure_reason, action_history, context, exec_calls, close_calls>>
    /\ UNCHANGED fnVars

\* the loop guard consulted only after the action has run
StepLoopDetectedLate ==
    /\ pc = "loop"
    /\ \E d \in RunDecisions :
        /\ ~IsDone(d)
        /\ IsLooping(action_history, d) = "true"
        /\ decision' = d
        /\ step_count' = step_count + 1
        /\ screenshots' = Append(screenshots, step_count')
        /\ oracle_calls' = oracle_calls + 1
        /\ exec_calls' = exec_calls + 1
        /\ action_history' = Append(action_history, ActionRecord(step_count', d, FALSE))
        /\ LeaveLoop(workflow_completed, "loop_detected", successful_actions,
                     step_count', screenshots', action_history')
    /\ UNCHANGED <<max_steps, min_actions, successful_actions, workflow_completed,
                   context, close_calls>>
    /\ UNCHANGED fnVars

\* a loop declared without replacing an earlier failure reason
StepLoopDetectedKeepsReason ==
    /\ pc = "loop"
    /\ \E d \in RunDecisions :
        /\ ~IsDone(d)
        /\ IsLooping(action_history, d) = "true"
        /\ decision' = d
        /\ step_count' = step_count + 1
        /\ screenshots' = Append(screenshots, step_count')
        /\ oracle_calls' = oracle_calls + 1
        /\ LeaveLoop(workflow_completed,
                     IF failure_reason = "" THEN "loop_detected" ELSE failure_reason,
                     successful_actions, step_count', screenshots', action_history)
    /\ UNCHANGED <<max_steps, min_actions, successful_actions, workflow_completed,
                   action_history, context, exec_calls, close_calls>>
    /\ UNCHANGED fnVars

\* lines 173-180
StepLoopDetected ==
    /\ pc = "loop"
    /\ \E d \in RunDecisions :
        /\ ~IsDone(d)
        /\ IsLooping(action_history, d) = "true"
        /\ decision' = d
        /\ step_count' = step_count + 1
        /\ screenshots' = Append(screenshots, step_count')
        /\ oracle_calls' = oracle_calls + 1
        /\ LeaveLoop(workflow_completed, "loop_detected", successful_actions,
                     step_count', screenshots', action_history)
    /\ UNCHANGED <<max_steps, min_actions, successful_actions, workflow_completed,
                   action_history, context, exec_calls, close_calls>>
    /\ UNCHANGED fnVars

\* the action executed whatever the loop guard answers
StepExecuteUnguarded ==
    /\ pc = "loop"
    /\ \E d \in RunDecisions :
        /\ ~IsDone(d)
        /\ IsLooping(action_history, d) # "raise"
        /\ \E drv \in PagesFor(d) :
            LET success == ExecuteAction(d, drv) = "true"
            IN  /\ decision' = d
                /\ step_count' = step_count + 1
                /\ screenshots' = Append(screenshots, step_count')
                /\ oracle_calls' = oracle_calls + 1
                /\ exec_calls' = exec_calls + 1
                /\ successful_actions' = CountSuccess(success, successful_actions)
                /\ action_history' =
                       AppendRecord(action_history, ActionRecord(step_count', d, success))
                /\ EndIteration(step_count', FailureReasonAfter(success, failure_reason),
                                successful_actions', screenshots', action_history')
    /\ UNCHANGED <<max_steps, min_actions, workflow_completed, context, close_calls>>
    /\ UNCHANGED fnVars

\* lines 182-210
StepExecute ==
    /\ pc = "loop"
    /\ \E d \in RunDecisions :
        /\ ~IsDone(d)
        /\ IsLooping(action_history, d) = "false"
        /\ \E drv \in PagesFor(d) :
            LET success == ExecuteAction(d, drv) = "true"
            IN  /\ decision' = d
                /\ step_count' = step_count + 1
                /\ screenshots' = Append(screenshots, step_count')
                /\ oracle_calls' = oracle_calls + 1
                /\ exec_calls' = exec_calls + 1
                /\ successful_actions' = CountSuccess(success, successful_actions)
                /\ action_history' =
                       AppendRecord(action_history, ActionRecord(step_count', d, success))
                /\ EndIteration(step_count', FailureReasonAfter(success, failure_reason),
                                successful_actions', screenshots', action_history')
    /\ UNCHANGED <<max_steps, min_actions, workflow_completed, context, close_calls>>
    /\ UNCHANGED fnVars

\* lines 296-299: the finally clause; an exception of context.close()
\* replaces the return value
Close ==
    /\ pc = "closing"
    /\ close_calls' = close_calls + 1
    /\ \E close \in {"ok", "raise"} :
           IF close = "ok"
           THEN context' = "closed" /\ pc' = "returned"
           ELSE context' = context /\ pc' = "raised"
    /\ UNCHANGED <<max_steps, min_actions, step_count, successful_actions,
                   workflow_completed, failure_reason, action_history,
                   screenshots, decision, outcome, oracle_calls, exec_calls>>
    /\ UNCHANGED fnVars

Next ==
    \/ Launch
    \/ GetPage
    \/ Navigate
    \/ StepScreenshotFails
    \/ StepOracleFails
    \/ StepDoneRejected
    \/ StepDoneAccepted
    \/ StepLoopCheckRaises
    \/ StepLoopDetected
    \/ StepExecute
    \/ Close

Spec == Init /\ [][Next]_vars

\* the run is one sequential call: a step that can be taken is taken
FairSpec == Spec /\ WF_vars(Next)

----------------------------------------------------------------------------
(* _is_looping applied on its own *)

RunIdle ==
    /\ pc = "idle"
    /\ max_steps = 0
    /\ min_actions = 0
    /\ step_count = 0
    /\ successful_actions = 0
    /\ workflow_completed = FALSE
    /\ failure_reason = ""
    /\ action_history = <<>>
    /\ screenshots = <<>>
    /\ decision = NoDecision
    /\ outcome = NoOutcome
    /\ context = "none"
    /\ oracle_calls = 0
    /\ exec_calls = 0
    /\ close_calls = 0

T_Next == <<"N", "e", "x", "t">>
T_next == <<"n", "e", "x", "t">>
T_next_padded == <<" ", "n", "e", "x", "t", " ">>
T_A == <<"A">>
T_B == <<"B">>

\* history entries: status and text vary together with the entry
LoopEntries ==
    { [action |-> a, target |-> t, text |-> f.text, status |-> f.status] :
        a \in {"click"}, t \in {T_Next, T_next_padded, T_A, T_B},
        f \in { [text |-> <<>>, status |-> "success"],
                [text |-> <<"x">>, status |-> "failed"] } }
    \cup { [action |-> "type", target |-> T_Next, text |-> <<"x">>, status |-> "success"],
           [action |-> "click", target |-> Null, text |-> <<>>, status |-> "success"] }

LoopIntents ==
    { [action |-> "click", target |-> T_next, text |-> <<>>],
      [action |-> "click", target |-> T_A, text |-> <<>>],
      [action |-> "type", target |-> T_Next, text |-> <<"x">>],
      [action |-> "click", target |-> Null, text |-> <<>>] }

InitLoop ==
    /\ RunIdle
    /\ fn = "is_looping"
    /\ fin \in { [history |-> <<>>, current |-> c] : c \in LoopIntents }
    /\ fout = "none"

\* the caller's history grows by one entry
LoopAppend ==
    /\ fn = "is_looping"
    /\ fout = "none"
    /\ Len(fin.history) < MaxHist
    /\ \E e \in LoopEntries : fin' = [fin EXCEPT !.history = Append(@, e)]
    /\ UNCHANGED <<fn, fout>>
    /\ UNCHANGED runVars

LoopCall ==
    /\ fn = "is_looping"
    /\ fout = "none"
    /\ fout' = IsLooping(fin.history, fin.current)
    /\ UNCHANGED <<fn, fin>>
    /\ UNCHANGED runVars

NextLoop == LoopAppend \/ LoopCall

SpecLoop == InitLoop /\ [][NextLoop]_vars

----------------------------------------------------------------------------
(* _execute_action applied on its own *)

ExecDecisions ==
    [ action : {"click", "type", "navigate", "wait", "done", "hover", "<null>"},
      target : {<<"5">>, <<"N">>, <<>>, Null, NonStr},
      text : {<<>>, <<"x">>, Null},
      description : {"why"},
      location : {"none"} ]

Pages ==
    [ click : {"true", "false"}, url_changed : BOOLEAN, idle : {"ok", "raise"},
      pause : {"ok", "raise"}, type : {"true", "false"},
      goto : {"ok", "raise"}, wait : {"ok", "raise"} ]

InitExec ==
    /\ RunIdle
    /\ fn = "execute_action"
    /\ fin \in { [decision |-> d, page |-> drv] : d \in ExecDecisions, drv \in Pages }
    /\ fout = "none"

ExecCall ==
    /\ fn = "execute_action"
    /\ fout = "none"
    /\ fout' = ExecuteAction(fin.decision, fin.page)
    /\ UNCHANGED <<fn, fin>>
    /\ UNCHANGED runVars

NextExec == ExecCall

SpecExec == InitExec /\ [][NextExec]_vars

----------------------------------------------------------------------------
(* _wait_for_state_change applied on its own *)

InitVerify ==
    /\ RunIdle
    /\ fn = "wait_for_state_change"
    /\ fin \in Pages
    /\ fout = "none"

VerifyCall ==
    /\ fn = "wait_for_state_change"
    /\ fout = "none"
    /\ fout' = WaitForStateChange(fin)
    /\ UNCHANGED <<fn, fin>>
    /\ UNCHANGED runVars

NextVerify == VerifyCall

SpecVerify == InitVerify /\ [][NextVerify]_vars

----------------------------------------------------------------------------
(* _execute_type applied on its own *)

T_Email == <<"E", "m", "a", "i", "l">>
T_hi == <<"h", "i">>

TypeTargets ==
    { <<>>, <<"n", "a", "m", "e">>, <<"#", "t">>, T_Email,
      <<"#", "t", "|", "h", "i">>, <<"E", "m", "a", "i", "l", "|">>, <<"|">>, Null, NonStr }

TypeTexts == { <<>>, T_hi, <<" ">>, Null, NonStr }

TypeForms ==
    [ attached : { {}, {"css selector"}, {"label text", "any contenteditable"},
                   {"any visible input"}, {"first visible input", "role textbox"} },
      fill : {"ok", "raise"}, focus : {"ok", "raise"}, meta : {"ok", "raise"},
      control : {"ok", "raise"}, keys : {"ok", "raise"} ]

NoResult == [result |-> "none", ops |-> <<>>]

InitType ==
    /\ RunIdle
    /\ fn = "execute_type"
    /\ fin \in [target : TypeTargets, text : TypeTexts, form : TypeForms]
    /\ fout = NoResult

TypeCall ==
    /\ fn = "execute_type"
    /\ fout = NoResult
    /\ fout' = ExecuteTypeOn(fin.target, fin.text, fin.form)
    /\ UNCHANGED <<fn, fin>>
    /\ UNCHANGED runVars

NextType == TypeCall

SpecType == InitType /\ [][NextType]_vars

----------------------------------------------------------------------------
(* _execute_click applied on its own *)

T_new == <<"n", "e", "w">>
T_New_Project_padded == <<" ", "N", "e", "w", " ", "P", "r", "o", "j", "e", "c", "t", " ">>
T_Save == <<"S", "a", "v", "e">>
T_open_the_new_project == <<"o", "p", "e", "n", " ", "t", "h", "e", " ", "n", "e", "w", " ", "p", "r", "o", "j", "e", "c", "t">>
T_Top_Left == <<"T", "o", "p", " ", "L", "e", "f", "t">>

ElementPool ==
    { [tag |-> Tag_button, aria |-> <<>>, text |-> <<"N", "e", "w", " ", "P", "r", "o", "j", "e", "c", "t">>,
       title |-> <<>>, x |-> 100, y |-> 50, state |-> "ok"],
      [tag |-> Tag_a, aria |-> <<>>, text |-> <<"r", "e", "n", "e", "w">>,
       title |-> <<>>, x |-> 1800, y |-> 900, state |-> "ok"],
      [tag |-> Tag_button, aria |-> <<"n", "e", "w">>, text |-> <<>>,
       title |-> <<>>, x |-> 900, y |-> 500, state |-> "ok"],
      [tag |-> Tag_div, aria |-> <<>>, text |-> <<"n", "e", "w">>,
       title |-> <<>>, x |-> 10, y |-> 10, state |-> "ok"],
      [tag |-> Tag_button, aria |-> <<>>, text |-> <<"S", "a", "v", "e">>,
       title |-> <<"t", "i", "p">>, x |-> 100, y |-> 50, state |-> "covered"],
      [tag |-> Tag_a, aria |-> <<>>, text |-> <<"N", "e", "w", " ", "P", "r", "o", "j", "e", "c", "t">>,
       title |-> <<>>, x |-> 100, y |-> 900, state |-> "stale"] }

\* the pages: at most MaxElems different elements of the pool, in any order
ClickDoms ==
    [ elements : { es \in UNION { [1..n -> ElementPool] : n \in 0..MaxElems } :
                       \A i, j \in 1..Len(es) : i # j => es[i] # es[j] },
      enumerate : {"ok", "raise"},
      viewport : {LaunchViewport, NoViewport} ]

ClickLocations ==
    { [kind |-> "empty", position |-> <<>>],
      [kind |-> "dict", position |-> T_Top_Left],
      [kind |-> "dict", position |-> Null],
      [kind |-> "other", position |-> <<>>] }

ClickDecisions ==
    [ action : {"click"},
      target : {<<>>, T_new, T_New_Project_padded, T_Save, Tag_a, Null, NonStr},
      text : {<<>>},
      description : {<<>>, T_open_the_new_project, Null, NonStr},
      location : ClickLocations ]

InitClick ==
    /\ RunIdle
    /\ fn = "execute_click"
    /\ fin \in [decision : ClickDecisions, dom : ClickDoms]
    /\ fout = NoResult

ClickCall ==
    /\ fn = "execute_click"
    /\ fout = NoResult
    /\ fout' = ExecuteClickOn(fin.decision, fin.dom)
    /\ UNCHANGED <<fn, fin>>
    /\ UNCHANGED runVars

NextClick == ClickCall

SpecClick == InitClick /\ [][NextClick]_vars

----------------------------------------------------------------------------
(* _parse_decision applied on its own *)

W_click_the_Next_button == <<"c", "l", "i", "c", "k", " ", "t", "h", "e", " ", "N", "e", "x", "t", " ", "b", "u", "t", "t", "o", "n">>
W_We_are_done == <<"W", "e", " ", "a", "r", "e", " ", "d", "o", "n", "e">>
W_Sure == <<"S", "u", "r", "e">>
W_Click_Submit == <<"C", "l", "i", "c", "k", " ", "S", "u", "b", "m", "i", "t">>

\* what an oracle response is made of: prose, JSON documents, code fences
ResponsePieces ==
    { J_click_Next, J_null_target, J_not_json, J_no_action, J_number,
      Fence, FenceJson, W_click_the_Next_button, W_We_are_done, W_Sure,
      W_Click_Submit }

\* the responses: at most MaxPieces pieces with a space between them
Responses ==
    { JoinWords(pieces) :
        pieces \in UNION { [1..n -> ResponsePieces] : n \in 0..MaxPieces } }

NoParse == [result |-> "none", decision |-> [action |-> "<none>"]]

InitParse ==
    /\ RunIdle
    /\ fn = "parse_decision"
    /\ fin \in Responses
    /\ fout = NoParse

ParseCall ==
    /\ fn = "parse_decision"
    /\ fout = NoParse
    /\ fout' = ParseDecision(fin)
    /\ UNCHANGED <<fn, fin>>
    /\ UNCHANGED runVars

NextParse == ParseCall

SpecParse == InitParse /\ [][NextParse]_vars

----------------------------------------------------------------------------
(* the target normalisation applied on its own, once and again *)

TargetChars == {"A", "a", " ", "\t"}

TargetStrings == UNION { [1..n -> TargetChars] : n \in 0..MaxLen }

InitNormalize ==
    /\ RunIdle
    /\ fn = "normalize"
    /\ fin \in TargetStrings
    /\ fout = [calls |-> 0, value |-> fin]

NormalizeCall ==
    /\ fn = "normalize"
    /\ fout.calls < 2
    /\ fout' = [calls |-> fout.calls + 1, value |-> NormalizeTarget(fout.value)]
    /\ UNCHANGED <<fn, fin>>
    /\ UNCHANGED runVars

NextNormalize == NormalizeCall

SpecNormalize == InitNormalize /\ [][NextNormalize]_vars

----------------------------------------------------------------------------
(* capture_workflow driven by a scripted oracle on a scripted page *)

T_Create_Project == <<"C", "r", "e", "a", "t", "e", " ", "P", "r", "o", "j", "e", "c", "t">>
T_Submit == <<"S", "u", "b", "m", "i", "t">>
T_Login == <<"L", "o", "g", "i", "n">>
T_field == <<"f", "i", "e", "l", "d">>
T_My_Project == <<"M", "y", " ", "P", "r", "o", "j", "e", "c", "t">>
T_Next_step == <<"N", "e", "x", "t", " ", "s", "t", "e", "p">>

NoLocation == [kind |-> "empty", position |-> <<>>]

\* Config.MAX_STEPS and Config.MIN_SUCCESSFUL_ACTIONS when the environment
\* sets neither
DefaultMaxSteps == 15
DefaultMinActions == 2

\* the intents of the script, as _parse_decision returns them for an oracle
\* that sends action, target and text (lines 947-951 supply the rest)
ClickCreateProject ==
    [action |-> "click", target |-> T_Create_Project, text |-> <<>>,
     description |-> T_Next_step, location |-> NoLocation]

TypeIntoField ==
    [action |-> "type", target |-> T_field, text |-> T_My_Project,
     description |-> T_Next_step, location |-> NoLocation]

ClickSubmit ==
    [action |-> "click", target |-> T_Submit, text |-> <<>>,
     description |-> T_Next_step, location |-> NoLocation]

Done ==
    [action |-> "done", target |-> <<>>, text |-> <<>>,
     description |-> T_Next_step, location |-> NoLocation]

ScriptIntents == {ClickCreateProject, TypeIntoField, ClickSubmit, Done}

Scripts == UNION { [1..n -> ScriptIntents] : n \in 0..MaxScript }

\* a "Login" link, a "Create Project" button and a "Submit" button
ThreeElements ==
    << [tag |-> Tag_a, aria |-> <<>>, text |-> T_Login,
        title |-> <<>>, x |-> 1800, y |-> 50, state |-> "ok"],
       [tag |-> Tag_button, aria |-> <<>>, text |-> T_Create_Project,
        title |-> <<>>, x |-> 900, y |-> 500, state |-> "ok"],
       [tag |-> Tag_button, aria |-> <<>>, text |-> T_Submit,
        title |-> <<>>, x |-> 900, y |-> 900, state |-> "ok"] >>

\* the page of the three elements: no locator of _execute_type finds an
\* input, a textarea or an editable region on it
ThreeElementPage ==
    [dom |-> [elements |-> ThreeElements, enumerate |-> "ok", viewport |-> LaunchViewport],
     form |-> [attached |-> {}, fill |-> "ok", focus |-> "ok", meta |-> "ok",
               control |-> "ok", keys |-> "ok"]]

\* the same page with a visible text input next to the three elements
PageWithInput ==
    [ThreeElementPage EXCEPT
        !.form.attached = {"first visible input", "any input", "role textbox",
                           "any visible input", "first input or textarea"}]

ScriptedPages == {ThreeElementPage, PageWithInput}

\* a page on which every type lands, whatever it holds
ScriptedDriverAcceptsType(d, page) ==
    [CalmPage EXCEPT
        !.click = IF d.action = "click" THEN ExecuteClickOn(d, page.dom).result ELSE "false",
        !.type = "true"]

\* what _execute_action meets on a scripted page: the click and the type are
\* resolved by _execute_click and _execute_type, nothing else fails; the
\* page stays as it is, so an intent is resolved the same way at every step
ScriptedDriver(d, page) ==
    [CalmPage EXCEPT
        !.click = IF d.action = "click" THEN ExecuteClickOn(d, page.dom).result ELSE "false",
        !.type = IF d.action = "type"
                 THEN ExecuteTypeOn(d.target, d.text, page.form).result ELSE "false"]

InitScripted ==
    /\ pc = "start"
    /\ max_steps \in {MaxSteps, DefaultMaxSteps}
    /\ min_actions = DefaultMinActions
    /\ step_count = 0
    /\ successful_actions = 0
    /\ workflow_completed = FALSE
    /\ failure_reason = ""
    /\ action_history = <<>>
    /\ screenshots = <<>>
    /\ decision = NoDecision
    /\ outcome = NoOutcome
    /\ context = "none"
    /\ oracle_calls = 0
    /\ exec_calls = 0
    /\ close_calls = 0
    /\ fn = "capture_workflow"
    /\ \E page \in ScriptedPages, script \in Scripts :
           fin = [page |-> page, script |-> script,
                  driver |-> [d \in ScriptIntents |-> ScriptedDriver(d, page)]]
    /\ fout = "none"

\* lines 76-115 on a driver that launches, opens its page and navigates
ScriptedOpen ==
    /\ pc = "start"
    /\ context' = "open"
    /\ pc' = "loop"
    /\ UNCHANGED <<max_steps, min_actions, step_count, successful_actions,
                   workflow_completed, failure_reason, action_history,
                   screenshots, decision, outcome, oracle_calls, exec_calls,
                   close_calls>>
    /\ UNCHANGED fnVars

\* the intent the oracle returns at its next call
Scripted(d) ==
    /\ oracle_calls < Len(fin.script)
    /\ d = fin.script[oracle_calls + 1]

\* lines 134-140: the oracle has nothing left to answer and raises
ScriptedOracleFails ==
    /\ pc = "loop"
    /\ oracle_calls >= Len(fin.script)
    /\ step_count' = step_count + 1
    /\ screenshots' = Append(screenshots, step_count')
    /\ oracle_calls' = oracle_calls + 1
    /\ decision' = NoDecision
    /\ outcome' = ExceptionOutcome(step_count', screenshots', action_history)
    /\ pc' = "closing"
    /\ UNCHANGED <<max_steps, min_actions, successful_actions, workflow_completed,
                   failure_reason, action_history, context, exec_calls, close_calls>>
    /\ UNCHANGED fnVars

\* lines 145-166
ScriptedDoneRejected ==
    /\ pc = "loop"
    /\ \E d \in ScriptIntents :
        /\ Scripted(d)
        /\ IsDone(d)
        /\ DoneGateRejects(successful_actions, min_actions)
        /\ decision' = d
        /\ step_count' = step_count + 1
        /\ screenshots' = Append(screenshots, step_count')
        /\ oracle_calls' = oracle_calls + 1
        /\ action_history' = AppendRecord(action_history, RejectedRecord(step_count'))
        /\ EndIteration(step_count', failure_reason, successful_actions,
                        screenshots', action_history')
    /\ UNCHANGED <<max_steps, min_actions, successful_actions, workflow_completed,
                   context, exec_calls, close_calls>>
    /\ UNCHANGED fnVars

\* lines 145-171
ScriptedDoneAccepted ==
    /\ pc = "loop"
    /\ \E d \in ScriptIntents :
        /\ Scripted(d)
        /\ IsDone(d)
        /\ ~DoneGateRejects(successful_actions, min_actions)
        /\ decision' = d
        /\ step_count' = step_count + 1
        /\ screenshots' = Append(screenshots, step_count')
        /\ oracle_calls' = oracle_calls + 1
        /\ workflow_completed' = TRUE
        /\ LeaveLoop(TRUE, failure_reason, successful_actions, step_count',
                     screenshots', action_history)
    /\ UNCHANGED <<max_steps, min_actions, successful_actions, action_history,
                   context, exec_calls, close_calls>>
    /\ UNCHANGED fnVars

\* lines 173-180
ScriptedLoopDetected ==
    /\ pc = "loop"
    /\ \E d \in ScriptIntents :
        /\ Scripted(d)
        /\ ~IsDone(d)
        /\ IsLooping(action_history, d) = "true"
        /\ decision' = d
        /\ step_count' = step_count + 1
        /\ screenshots' = Append(screenshots, step_count')
        /\ oracle_calls' = oracle_calls + 1
        /\ LeaveLoop(workflow_completed, "loop_detected", successful_actions,
                     step_count', screenshots', action_history)
    /\ UNCHANGED <<max_steps, min_actions, successful_actions, workflow_completed,
                   action_history, context, exec_calls, close_calls>>
    /\ UNCHANGED fnVars

\* lines 182-210
ScriptedExecute ==
    /\ pc = "loop"
    /\ \E d \in ScriptIntents :
        /\ Scripted(d)
        /\ ~IsDone(d)
        /\ IsLooping(action_history, d) = "false"
        /\ LET success == ExecuteAction(d, fin.driver[d]) = "true"
           IN  /\ decision' = d
               /\ step_count' = step_count + 1
               /\ screenshots' = Append(screenshots, step_count')
               /\ oracle_calls' = oracle_calls + 1
               /\ exec_calls' = exec_calls + 1
               /\ successful_actions' = CountSuccess(success, successful_actions)
               /\ action_history' =
                      AppendRecord(action_history, ActionRecord(step_count', d, success))
               /\ EndIteration(step_count', FailureReasonAfter(success, failure_reason),
                               successful_actions', screenshots', action_history')
    /\ UNCHANGED <<max_steps, min_actions, workflow_completed, context, close_calls>>
    /\ UNCHANGED fnVars

\* lines 296-299 on a driver whose context closes
ScriptedClose ==
    /\ pc = "closing"
    /\ close_calls' = close_calls + 1
    /\ context' = "closed"
    /\ pc' = "returned"
    /\ UNCHANGED <<max_steps, min_actions, step_count, successful_actions,
                   workflow_completed, failure_reason, action_history,
                   screenshots, decision, outcome, oracle_calls, exec_calls>>
    /\ UNCHANGED fnVars

NextScripted ==
    \/ ScriptedOpen
    \/ ScriptedOracleFails
    \/ ScriptedDoneRejected
    \/ ScriptedDoneAccepted
    \/ ScriptedLoopDetected
    \/ ScriptedExecute
    \/ ScriptedClose

\* the run is one sequential call: a step that can be taken is taken
SpecScripted == InitScripted /\ [][NextScripted]_vars /\ WF_vars(NextScripted)

----------------------------------------------------------------------------
(* Properties of the run controller *)

\* the run left the loop normally: the outcome carries a reason
HasReason == "reason" \in DOMAIN outcome

Ended == pc \in {"closing", "returned", "raised"}

SomeRecord(status) ==
    \E i \in 1..Len(action_history) : action_history[i].status = status

\* C1: a done intent is accepted as terminal, and a run ends COMPLETED, only
\* with successful_actions >= MIN_SUCCESSFUL_ACTIONS at the step where done
\* was proposed.
C1_DoneGate ==
    /\ workflow_completed =>
           /\ decision.action = "done"
           /\ successful_actions >= min_actions
    /\ (HasReason /\ outcome.success) =>
           /\ workflow_completed
           /\ outcome.successful_actions >= min_actions

C1_Witness ==
    /\ pc = "returned"
    /\ HasReason /\ outcome.success
    /\ min_actions = 2
    /\ successful_actions = 2
    /\ SomeRecord("rejected")

\* C2 (as claimed): a done proposed with successful_actions >=
\* MIN_SUCCESSFUL_ACTIONS ends the run at that step with success = true and
\* reason 'completed', with no further oracle call or action.
C2_AcceptedDoneCompletes ==
    (Ended /\ decision.action = "done" /\ successful_actions >= min_actions) =>
        /\ HasReason
        /\ outcome.success
        /\ outcome.reason = "completed"
        /\ outcome.total_steps = oracle_calls

\* C4: at a step where the loop guard declares a loop the proposed action is
\* not executed, no record is appended, and the run ends at that step with
\* reason loop_detected.
C4_LoopCheckBeforeExecute ==
    [][ ( /\ pc = "loop"
          /\ oracle_calls' = oracle_calls + 1
          /\ decision'.action \notin {"done", "<none>"}
          /\ IsLooping(action_history, decision') = "true" )
        => ( /\ action_history' = action_history
             /\ exec_calls' = exec_calls
             /\ successful_actions' = successful_actions
             /\ pc' = "closing"
             /\ "reason" \in DOMAIN outcome'
             /\ outcome'.reason = "loop_detected"
             /\ ~outcome'.success
             /\ outcome'.total_steps = step_count + 1 ) ]_vars

C4_Witness ==
    /\ pc = "returned"
    /\ HasReason /\ outcome.reason = "loop_detected"
    /\ step_count = 4
    /\ Len(action_history) = 3
    /\ exec_calls = 3
    /\ SomeRecord("failed")

SpecReasons ==
    {"completed", "loop_detected", "max_steps_reached", "no_actions_executed",
     "done_rejected_loop"}

\* C5 (as claimed): a run that ends without a run-level exception reports one
\* of COMPLETED, LOOP_DETECTED, MAX_STEPS_REACHED, NO_ACTIONS,
\* DONE_REJECTED_LOOP and nothing else.
C5_FiveTerminalStates ==
    HasReason => outcome.reason \in SpecReasons

\* C5 (amended): a run that ends without a run-level exception reports
\* exactly one reason, one of the five of the claim or action_failed, and
\* success exactly with reason completed.
C5_TerminalReasons ==
    HasReason =>
        /\ outcome.reason \in SpecReasons \cup {"action_failed"}
        /\ outcome.success <=> outcome.reason = "completed"
        /\ ~outcome.success => outcome.reason = failure_reason

C5_Witness ==
    /\ pc = "returned"
    /\ HasReason /\ outcome.reason = "action_failed"

\* the for loop ran out of steps: no break by an accepted done or by the
\* loop guard
BudgetExhausted ==
    /\ HasReason
    /\ ~workflow_completed
    /\ outcome.reason # "loop_detected"
    /\ step_count >= max_steps

\* C6 (as claimed): a run that uses up its steps without an accepted done or
\* a declared loop reports max_steps_reached whatever the actions' statuses.
C6_ExhaustedIsMaxSteps ==
    BudgetExhausted => outcome.reason = "max_steps_reached"

\* C6 (amended): such a run reports max_steps_reached if no action of the
\* run failed and action_failed if one did.
C6_ExhaustedReason ==
    BudgetExhausted =>
        outcome.reason = IF SomeRecord("failed") THEN "action_failed"
                         ELSE "max_steps_reached"

C6_Witness ==
    /\ pc = "returned"
    /\ BudgetExhausted
    /\ max_steps = 4
    /\ SomeRecord("failed") /\ SomeRecord("success") /\ SomeRecord("rejected")
    /\ outcome.reason = "action_failed"

\* C7 (as claimed): a run that ends with successful_actions = 0 and no
\* declared loop reports no_actions_executed (stated of the runs that began
\* a step).
C7_ZeroActionsIsNoActions ==
    ( /\ HasReason
      /\ step_count >= 1
      /\ outcome.successful_actions = 0
      /\ failure_reason # "loop_detected" )
        => outcome.reason = "no_actions_executed"

\* C7 (amended): a run that ends with successful_actions = 0 and no declared
\* loop reports no_actions_executed when it ended by an accepted done and no
\* action had failed; otherwise it reports action_failed if an action
\* failed and max_steps_reached if none did.
C7_ZeroActionsReason ==
    (HasReason /\ outcome.successful_actions = 0 /\ failure_reason # "loop_detected")
        => outcome.reason =
               IF SomeRecord("failed") THEN "action_failed"
               ELSE IF workflow_completed THEN "no_actions_executed"
               ELSE "max_steps_reached"

C7_Witness ==
    /\ pc = "returned"
    /\ HasReason /\ outcome.reason = "no_actions_executed"
    /\ outcome.successful_actions = 0
    /\ workflow_completed

\* C8 (as claimed): the run never propagates an exception to its caller;
\* every failure of the driver or the oracle yields a record with
\* success = false.
C8_NeverPropagates ==
    /\ pc # "raised"
    /\ (pc = "returned" /\ ~HasReason) =>
           /\ "error" \in DOMAIN outcome
           /\ ~outcome.success

\* C9 (as claimed): every run makes at most max_steps oracle calls and
\* eventually returns an outcome.
C9_RunReturnsOutcome ==
    /\ [](oracle_calls = 0 \/ oracle_calls <= max_steps)
    /\ <>(pc = "returned" /\ outcome # NoOutcome)

\* C11: a failed action does not end the run. An action that failed at a
\* step k < max_steps is recorded with status "failed" and the controller
\* goes on to step k+1, whose screenshot is followed by a new oracle call; a
\* done accepted later still ends the run COMPLETED (the witness).
C11_FailedActionContinues ==
    /\ \A i \in 1..Len(action_history) :
           (action_history[i].status = "failed" /\ action_history[i].step < max_steps)
               => \/ pc = "loop" /\ step_count = action_history[i].step
                                 /\ outcome = NoOutcome
                  \/ step_count > action_history[i].step
    /\ Len(screenshots) = step_count => oracle_calls = step_count
    /\ (pc = "loop" /\ failure_reason = "action_failed") => SomeRecord("failed")

C11_Witness ==
    /\ pc = "returned"
    /\ SomeRecord("failed")
    /\ HasReason /\ outcome.success /\ outcome.reason = "completed"
    /\ outcome.action_history = action_history

\* C12: in every state successful_actions <= step_count (the steps begun),
\* and every outcome that carries both values has
\* successful_actions <= total_steps.
C12_SuccessfulAtMostSteps ==
    /\ successful_actions <= step_count
    /\ ({"successful_actions", "total_steps"} \subseteq DOMAIN outcome)
           => outcome.successful_actions <= outcome.total_steps

C12_Witness ==
    /\ pc = "returned"
    /\ HasReason
    /\ outcome.total_steps >= 3
    /\ outcome.successful_actions = outcome.total_steps

\* C13: the action history is append-only: every step of the run leaves it
\* unchanged or appends exactly one record at its end; no record is
\* modified, reordered or removed.
C13_HistoryAppendOnly ==
    [][\/ action_history' = action_history
       \/ /\ Len(action_history') = Len(action_history) + 1
          /\ SubSeq(action_history', 1, Len(action_history)) = action_history
          /\ action_history'[Len(action_history')].step = step_count']_vars

C13_Witness ==
    /\ Len(action_history) >= 3
    /\ SomeRecord("rejected")
    /\ SomeRecord("failed")
    /\ SomeRecord("success")

\* the last record of the history belongs to the step just taken
LastRecordIsOfThisStep ==
    /\ Len(action_history) > 0
    /\ action_history[Len(action_history)].step = step_count

\* C16: an intent whose kind is not click, type, navigate, wait or done is
\* never executed against the page: for every page _execute_action invokes
\* no page method and returns false, and the controller records the intent
\* with status "failed" and goes on without a run-level exception.
C16_UnknownKindNotExecuted ==
    /\ \A i \in 1..Len(action_history) :
           action_history[i].action \notin ExecutableKinds \cup {"done"}
               => action_history[i].status = "failed"
    /\ (/\ decision.action \notin ExecutableKinds \cup {"done", "<none>"}
        /\ LastRecordIsOfThisStep
        /\ pc \in {"loop", "closing"})
           => /\ action_history[Len(action_history)].action = decision.action
              /\ "error" \notin DOMAIN outcome
              /\ \A drv \in Pages :
                     /\ ExecuteAction(decision, drv) = "false"
                     /\ ExecuteActionOps(decision, drv) = {}

C16_Witness ==
    /\ pc = "loop"
    /\ decision.action = "hover"
    /\ LastRecordIsOfThisStep
    /\ action_history[Len(action_history)].action = "hover"
    /\ action_history[Len(action_history)].status = "failed"
    /\ exec_calls = step_count

----------------------------------------------------------------------------
(* Properties of _is_looping *)

LoopInputIsStrings ==
    /\ IsStr(fin.current.target)
    /\ \A i \in 1..Len(fin.history) : IsStr(fin.history[i].target)

LastThreeMatch(history, current) ==
    /\ Len(history) >= 3
    /\ \A i \in (Len(history) - 2)..Len(history) :
           /\ history[i].action = current.action
           /\ NormalizeTarget(history[i].target) = NormalizeTarget(current.target)

WithStatus(history, status) ==
    [i \in 1..Len(history) |-> [history[i] EXCEPT !.status = status]]

WithText(history, text) ==
    [i \in 1..Len(history) |-> [history[i] EXCEPT !.text = text]]

Targets(history) == [i \in 1..Len(history) |-> history[i].target]

AllClicks(history) == \A i \in 1..Len(history) : history[i].action = "click"

\* C3: _is_looping returns true exactly when the history has at least 3
\* entries and each of the last 3 has the action kind and the normalized
\* target of the proposed intent, whatever the entries' status and text;
\* [click Next x3] against (click, next) is a loop, [click A, click B,
\* click A] is not.
C3_LoopingIff ==
    (fn = "is_looping" /\ fout # "none" /\ LoopInputIsStrings) =>
        /\ fout = IF LastThreeMatch(fin.history, fin.current) THEN "true" ELSE "false"
        /\ \A st \in {"success", "failed", "rejected"} :
               IsLooping(WithStatus(fin.history, st), fin.current) = fout
        /\ \A tx \in {<<>>, <<"x">>} :
               IsLooping(WithText(fin.history, tx), fin.current) = fout
        /\ ( /\ Targets(fin.history) = <<T_Next, T_Next, T_Next>>
             /\ AllClicks(fin.history)
             /\ fin.current.action = "click" /\ fin.current.target = T_next )
               => fout = "true"
        /\ ( /\ Targets(fin.history) = <<T_A, T_B, T_A>>
             /\ AllClicks(fin.history) )
               => fout = "false"

C3_Witness ==
    /\ fn = "is_looping"
    /\ fout = "true"
    /\ Len(fin.history) = 4
    /\ fin.history[1].target = T_B
    /\ fin.history[2].target = T_Next /\ fin.history[2].status = "failed"
    /\ fin.history[3].target = T_next_padded /\ fin.history[3].status = "success"
    /\ fin.history[4].target = T_Next /\ fin.history[4].status = "failed"
    /\ fin.current.target = T_next

----------------------------------------------------------------------------
(* Properties of _execute_action *)

\* C10: _execute_action never raises: for every intent, with fields that
\* may be null or not strings, and every exception of a page primitive
\* during click, type, navigate, wait or state-change verification it
\* returns a boolean, false for every caught failure.
C10_ExecuteNeverRaises ==
    (fn = "execute_action" /\ fout # "none") =>
        /\ fout \in {"true", "false"}
        /\ ExecuteActionBody(fin.decision, fin.page) = "raise" => fout = "false"

C10_Witness ==
    /\ fn = "execute_action"
    /\ fout = "false"
    /\ fin.decision.action = "click"
    /\ fin.decision.target = <<"N">>
    /\ fin.page.click = "true"
    /\ ~fin.page.url_changed /\ fin.page.idle = "raise" /\ fin.page.pause = "raise"

\* C14 (as claimed): for a click whose element resolution succeeded,
\* _execute_action reports success whatever the state-change verifier does,
\* both when a state change was observed and when none was.
C14_ResolvedClickSucceeds ==
    (/\ fn = "execute_action" /\ fout # "none"
     /\ fin.decision.action = "click"
     /\ ExecuteClick(fin.decision, fin.page) = "true")
        => fout = "true"

----------------------------------------------------------------------------
(* Properties of _wait_for_state_change *)

\* C15 (as claimed): _wait_for_state_change never raises: for every
\* behaviour of the URL poll, the quiescence wait and the fixed pause,
\* including their exceptions, it returns a boolean.
C15_VerifierNeverRaises ==
    (fn = "wait_for_state_change" /\ fout # "none") => fout \in {"true", "false"}

----------------------------------------------------------------------------
(* Properties of _execute_type *)

\* the intent's text is empty, also after the split of a "selector|value"
\* target
TextIsEmpty ==
    /\ ~Truthy(fin.text)
    /\ (IsStr(fin.target) /\ IndexOf(fin.target, "|") > 0)
           => IndexOf(fin.target, "|") = Len(fin.target)

\* C17: no type action enters an empty string: the value passed to fill and
\* to the keystroke fallback is never empty, it is "Test Project" for every
\* intent whose text is empty (also after the "selector|value" split), and
\* the value part of the target when that is not empty.
C17_NeverTypesEmpty ==
    (fn = "execute_type" /\ fout # NoResult) =>
        \A i \in 1..Len(fout.ops) :
            fout.ops[i].op \in {"fill", "type"} =>
                /\ fout.ops[i].value # <<>>
                /\ fout.ops[i].value # Null
                /\ TextIsEmpty => fout.ops[i].value = Placeholder
                /\ (~Truthy(fin.text) /\ ~TextIsEmpty) =>
                       fout.ops[i].value = SplitOnce(fin.target, "|")[2]

C17_Witness ==
    /\ fn = "execute_type"
    /\ fin.text = <<>>
    /\ fin.target = <<"E", "m", "a", "i", "l", "|">>
    /\ fout.result = "true"
    /\ \E i, j \in 1..Len(fout.ops) :
           /\ fout.ops[i].op = "fill" /\ ~fout.ops[i].ok
           /\ fout.ops[i].value = Placeholder
           /\ fout.ops[j].op = "type" /\ fout.ops[j].ok
           /\ fout.ops[j].value = Placeholder

----------------------------------------------------------------------------
(* Properties of _execute_click *)

\* the keywords derived from the intent handed to _execute_click
DerivedKeywords ==
    ExtractKeywords(JoinNonEmpty(
        <<IF IsStr(fin.decision.target) THEN Strip(fin.decision.target) ELSE <<>>,
          fin.decision.description>>))

\* the semantic score of element i of the page against the derived keywords
ElementScore(i) ==
    LET e == fin.dom.elements[i]
    IN  ScoreElementMatch(JoinNonEmpty(<<e.aria, e.text, e.title>>), DerivedKeywords)

\* the elements the semantic tier can score: visible buttons and links whose
\* attributes can be read
Scorable ==
    { i \in 1..Len(fin.dom.elements) :
        /\ fin.dom.elements[i].tag \in {Tag_button, Tag_a}
        /\ fin.dom.elements[i].state # "stale" }

ClickIssued(k, tier) ==
    /\ fout.ops[k].op = "click"
    /\ fout.ops[k].tier = tier

\* C18: the semantic tier clicks an element only if its score is the
\* greatest of all candidates and is >= 50; when the greatest score is below
\* 50 the semantic tier clicks nothing.
C18_SemanticFloor ==
    (fn = "execute_click" /\ fout # NoResult) =>
        /\ \A k \in 1..Len(fout.ops) :
               ClickIssued(k, "semantic") =>
                   /\ fout.ops[k].element \in Scorable
                   /\ ElementScore(fout.ops[k].element) >= ConfidenceFloor
                   /\ \A j \in Scorable :
                          ElementScore(j) <= ElementScore(fout.ops[k].element)
        /\ (\A j \in Scorable : ElementScore(j) < ConfidenceFloor)
               => ~\E k \in 1..Len(fout.ops) : ClickIssued(k, "semantic")

C18_Witness ==
    /\ fn = "execute_click"
    /\ fout.result = "true"
    /\ Len(fin.dom.elements) = 2
    /\ ClickIssued(Len(fout.ops), "semantic")
    /\ fout.ops[Len(fout.ops)].element = 2
    /\ ElementScore(1) >= ConfidenceFloor
    /\ ElementScore(1) < ElementScore(2)

\* C19: as soon as one click strategy succeeds the resolution returns
\* success and invokes no later strategy: a click that landed is the last
\* page operation; after an exact-match strategy landed there is no element
\* enumeration and no strategy of a later tier.
C19_TierShortCircuit ==
    (fn = "execute_click" /\ fout # NoResult) =>
        \A k \in 1..Len(fout.ops) :
            (fout.ops[k].op = "click" /\ fout.ops[k].ok) =>
                /\ k = Len(fout.ops)
                /\ fout.result = "true"
                /\ fout.ops[k].tier = "exact" =>
                       \A j \in 1..Len(fout.ops) :
                           fout.ops[j].tier = "exact" /\ fout.ops[j].op = "click"

C19_Witness ==
    /\ fn = "execute_click"
    /\ fout.result = "true"
    /\ Len(fout.ops) = 1
    /\ fout.ops[1].strategy = "exact text" /\ fout.ops[1].ok
    /\ fin.dom.enumerate = "ok"
    /\ \E j \in Scorable : ElementScore(j) >= ConfidenceFloor
    /\ fin.decision.location.kind = "dict"

\* C20 (as claimed): over the whole click resolution, all five tiers, an
\* element whose semantic score against the derived keywords is below 50 is
\* never clicked.
C20_NeverClicksBelowFloor ==
    (fn = "execute_click" /\ fout # NoResult) =>
        \A k \in 1..Len(fout.ops) :
            (fout.ops[k].op = "click" /\ fout.ops[k].ok) =>
                ElementScore(fout.ops[k].element) >= ConfidenceFloor

----------------------------------------------------------------------------
(* _extract_keywords applied on its own *)

\* words of a click target and its description: content words of different
\* and of equal lengths, a capital, a tab, a stop-word, a short word
Vocabulary ==
    { <<"o", "p", "e", "n">>, <<"s", "a", "v", "e">>, <<"\t", "N", "e", "w">>, <<"p", "r", "o", "j", "e", "c", "t">>, <<"T", "h", "e">>, <<"o", "k">> }

\* the texts: at most MaxWords words with a space between them
KeywordTexts ==
    { JoinWords(words) :
        words \in UNION { [1..n -> Vocabulary] : n \in 0..MaxWords } }

NoKeywords == [result |-> "none", value |-> <<>>]

InitKeywords ==
    /\ RunIdle
    /\ fn = "extract_keywords"
    /\ fin \in KeywordTexts
    /\ fout = NoKeywords

KeywordsCall ==
    /\ fn = "extract_keywords"
    /\ fout = NoKeywords
    /\ fout' = [result |-> "ok", value |-> ExtractKeywords(fin)]
    /\ UNCHANGED <<fn, fin>>
    /\ UNCHANGED runVars

NextKeywords == KeywordsCall

SpecKeywords == InitKeywords /\ [][NextKeywords]_vars

----------------------------------------------------------------------------
(* _find_best_spatial_match applied on its own *)

\* the boxes of the candidates: near and beyond each threshold of the
\* viewport, one candidate without a box
SpatialPool ==
    [x : {100, 600, 960, 1800}, y : {50, 300, 730}, state : {"ok"}]
        \cup {[x |-> 100, y |-> 50, state |-> "stale"]}

SpatialElements == UNION { [1..n -> SpatialPool] : n \in 0..MaxElems }

SpatialHints ==
    { <<>>, Null, <<"t", "o", "p">>, <<"T", "o", "p", " ", "L", "e", "f", "t">>, <<"b", "o", "t", "t", "o", "m", " ", "r", "i", "g", "h", "t">>, <<"c", "e", "n", "t", "e", "r">>, <<"t", "o", "o", "l", "b", "a", "r">>, <<"n", "o", "w", "h", "e", "r", "e">> }

NoMatch == [result |-> "none", match |-> 0]

InitSpatial ==
    /\ RunIdle
    /\ fn = "find_best_spatial_match"
    /\ fin \in [elements : SpatialElements, position : SpatialHints,
                viewport : {LaunchViewport, NoViewport}]
    /\ fout = NoMatch

SpatialCall ==
    /\ fn = "find_best_spatial_match"
    /\ fout = NoMatch
    /\ fout' = [result |-> "ok",
                match |-> FindBestSpatialMatch(fin.elements, fin.position, fin.viewport)]
    /\ UNCHANGED <<fn, fin>>
    /\ UNCHANGED runVars

NextSpatial == SpatialCall

SpecSpatial == InitSpatial /\ [][NextSpatial]_vars

----------------------------------------------------------------------------
(* Properties of _parse_decision *)

Parsed == fn = "parse_decision" /\ fout # NoParse

\* the parser took the except branch of line 931: what it handed to
\* json.loads is not a JSON document
Unparsable(text) == JsonLoads(JsonStr(ActionFragment(Strip(text)))).kind = "raise"

Mentions(text, word) == Contains(Lower(text), word)

\* C21 (as claimed): for every response text the parser returns a decision,
\* and in it action, target, text, description and location are all present
\* and none of them is null.
C21_FullyDefaulted ==
    Parsed =>
        /\ fout.result = "ok"
        /\ DOMAIN fout.decision = {"action", "target", "text", "description", "location"}
        /\ fout.decision.action # "<null>"
        /\ fout.decision.target # Null
        /\ fout.decision.text # Null
        /\ fout.decision.description # "<null>"
        /\ fout.decision.location # "<null>"

\* C22: when the response is not a JSON document, the parser returns done or
\* a click on "Next" or on "Submit" and nothing else; when neither click rule
\* matches the response it returns done, which the run never hands to the
\* executor.
C22_FailSafe ==
    (Parsed /\ Unparsable(fin)) =>
        /\ fout.result = "ok"
        /\ \/ fout.decision.action = "done"
           \/ /\ fout.decision.action = "click"
              /\ fout.decision.target \in {T_Next_word, <<"S", "u", "b", "m", "i", "t">>}
        /\ (~(/\ Mentions(fin, <<"c", "l", "i", "c", "k">>)
              /\ \/ Mentions(fin, <<"n", "e", "x", "t">>)
                 \/ Mentions(fin, <<"s", "u", "b", "m", "i", "t">>)))
               => (fout.decision.action = "done" /\ IsDone(fout.decision))

C22_Witness ==
    /\ Parsed
    /\ Unparsable(fin)
    /\ Contains(fin, W_Sure)
    /\ ~Mentions(fin, <<"d", "o", "n", "e">>)
    /\ fout.decision.action = "done"
    /\ fout.decision.description = "Parse error - stopping workflow"

\* the response holds none of the valid JSON documents
NoValidJson(text) ==
    /\ ~Contains(text, J_click_Next)
    /\ ~Contains(text, J_null_target)
    /\ ~Contains(text, J_no_action)
    /\ ~Contains(text, J_number)

\* C23 (as claimed): every response without valid JSON that contains
\* "click the Next button" parses to a click on "Next", whatever else the
\* response contains.
C23_ClickNextPhrase ==
    (Parsed /\ NoValidJson(fin) /\ Contains(fin, W_click_the_Next_button)) =>
        /\ fout.result = "ok"
        /\ fout.decision.action = "click"
        /\ fout.decision.target = T_Next_word

----------------------------------------------------------------------------
(* Properties of the loop guard's target normalisation *)

\* C24: normalising a target that is already normalised (lowercased, then
\* trimmed) changes nothing: the second application returns what the first
\* returned.
C24_NormalizeIdempotent ==
    [][(fn = "normalize" /\ fout.calls = 1) => fout'.value = fout.value]_vars

C24_Witness ==
    /\ fn = "normalize"
    /\ fout.calls = 2
    /\ fin = <<" ", "\t", "A", " ">>
    /\ fout.value = <<"a">>

----------------------------------------------------------------------------
(* Properties of the scripted run *)

\* the script: click "Create Project", type into a generic field, click
\* "Submit", done
ClaimedScript == <<ClickCreateProject, TypeIntoField, ClickSubmit, Done>>

\* a run of the script under the configured defaults
ScriptedScenario ==
    /\ fn = "capture_workflow"
    /\ fin.script = ClaimedScript
    /\ max_steps = DefaultMaxSteps
    /\ min_actions = DefaultMinActions

\* the scenario on the page of exactly three elements
ThreeElementScenario == ScriptedScenario /\ fin.page = ThreeElementPage

CompletedWith(n) ==
    /\ pc = "returned"
    /\ outcome.success
    /\ outcome.reason = "completed"
    /\ outcome.successful_actions = n
    /\ successful_actions = n

\* C25 (as claimed): the run of the three-element scenario ends COMPLETED
\* with three successful actions.
C25_EndToEndThree ==
    (ThreeElementScenario /\ pc = "start") ~> CompletedWith(3)

\* C25 (amended): the run of the three-element scenario ends COMPLETED with
\* two successful actions, the type being recorded as failed because the
\* page has nothing to type into; on the same page with a text input it ends
\* COMPLETED with three.
C25_EndToEnd ==
    (ScriptedScenario /\ pc = "start") ~>
        IF fin.page = ThreeElementPage
        THEN /\ CompletedWith(2)
             /\ Len(action_history) = 3
             /\ action_history[2].action = "type"
             /\ action_history[2].status = "failed"
        ELSE CompletedWith(3)

C25_Witness ==
    /\ ThreeElementScenario
    /\ CompletedWith(2)
    /\ step_count = 4
    /\ action_history[1].status = "success"
    /\ action_history[3].status = "success"

----------------------------------------------------------------------------
(* Properties of the configuration *)

\* C26 (as claimed): a step budget or a minimum of successful actions that
\* is zero or negative is rejected: no run gets past its start with one.
C26_ConfigValidated ==
    pc # "start" => (max_steps >= 1 /\ min_actions >= 1)

----------------------------------------------------------------------------
(* Properties of the returned record *)

\* C27 (as claimed): every record a run returns carries the completion flag,
\* the step count, the count of successful actions and, when the run did not
\* complete, a failure reason, together with all the screenshots and history
\* records of the run.
C27_OutcomeCarriesAll ==
    pc = "returned" =>
        /\ {"success", "total_steps", "successful_actions"} \subseteq DOMAIN outcome
        /\ outcome.total_steps = step_count
        /\ outcome.successful_actions = successful_actions
        /\ ~outcome.success => ("reason" \in DOMAIN outcome /\ outcome.reason # "")
        /\ outcome.screenshots = screenshots
        /\ outcome.action_history = action_history

----------------------------------------------------------------------------
(* Properties of a rejected done *)

\* a step in which the oracle answers done below the threshold
DoneBelowThreshold ==
    /\ pc = "loop"
    /\ step_count' = step_count + 1
    /\ decision'.action = "done"
    /\ successful_actions < min_actions

\* C28: a done below the threshold takes one step and appends one record,
\* of status "rejected"; it leaves the count of successful actions, the
\* completion flag and the browser alone and runs no page action; below the
\* budget the run goes on with its failure reason as it was, and at the
\* budget it ends as not completed, an empty reason becoming
\* "max_steps_reached".
C28_RejectedDoneFrame ==
    [][DoneBelowThreshold =>
        /\ Len(action_history') = Len(action_history) + 1
        /\ SubSeq(action_history', 1, Len(action_history)) = action_history
        /\ action_history'[Len(action_history')].status = "rejected"
        /\ action_history'[Len(action_history')].step = step_count'
        /\ successful_actions' = successful_actions
        /\ workflow_completed' = workflow_completed
        /\ exec_calls' = exec_calls
        /\ oracle_calls' = oracle_calls + 1
        /\ context' = context /\ close_calls' = close_calls
        /\ IF step_count' < max_steps
           THEN /\ pc' = "loop"
                /\ failure_reason' = failure_reason
                /\ outcome' = outcome
           ELSE /\ pc' = "closing"
                /\ ~outcome'.success
                /\ failure_reason' = IF failure_reason = "" THEN "max_steps_reached"
                                     ELSE failure_reason
                /\ outcome'.reason = failure_reason'
                /\ outcome'.successful_actions = successful_actions]_vars

C28_Witness ==
    /\ pc = "loop"
    /\ decision.action = "done"
    /\ action_history # <<>>
    /\ action_history[Len(action_history)].status = "rejected"
    /\ successful_actions = 1
    /\ step_count = 2
    /\ failure_reason = ""

----------------------------------------------------------------------------
(* Properties of the order of the click strategies *)

\* the selector attempts of the given tiers, in the order they were made
AttemptsOf(tiers) ==
    LET made == SelectSeq(fout.ops, LAMBDA o : o.op = "click" /\ o.tier \in tiers)
    IN  [k \in 1..Len(made) |-> <<made[k].strategy, made[k].arg>>]

EnumerationsOf(tier) ==
    Len(SelectSeq(fout.ops, LAMBDA o : o.op = "enumerate" /\ o.tier = tier))

TierRank(tier) ==
    CASE tier = "exact" -> 1
      [] tier = "semantic" -> 2
      [] tier = "spatial" -> 3
      [] tier = "keyword" -> 4
      [] tier = "fallback" -> 5

StrippedTarget ==
    IF IsStr(fin.decision.target) THEN Strip(fin.decision.target) ELSE <<>>

\* C29: _execute_click returns false only when every click it attempted
\* raised and it attempted, in this order, the three exact strategies (for a
\* target), the semantic tier, the spatial tier (for a location hint), the
\* two selectors of each of the first three keywords and the five fallback
\* strategies (for a target).
C29_FalseOnlyAfterAll ==
    (fn = "execute_click" /\ fout # NoResult /\ fout.result = "false") =>
        /\ \A k \in 1..Len(fout.ops) : fout.ops[k].op = "click" => ~fout.ops[k].ok
        /\ \A j, k \in 1..Len(fout.ops) :
               j < k => TierRank(fout.ops[j].tier) <= TierRank(fout.ops[k].tier)
        /\ AttemptsOf({"exact"}) = ExactStrategies(StrippedTarget)
        /\ EnumerationsOf("semantic") = 1
        /\ EnumerationsOf("spatial") =
               IF fin.decision.location.kind = "empty" THEN 0 ELSE 1
        /\ AttemptsOf({"keyword"}) =
               KeywordStrategies(SubSeq(DerivedKeywords, 1,
                                        IF Len(DerivedKeywords) < TopKeywords
                                        THEN Len(DerivedKeywords) ELSE TopKeywords))
        /\ AttemptsOf({"fallback"}) = FallbackStrategies(StrippedTarget)
        /\ Len(AttemptsOf({"keyword"})) <= 2 * TopKeywords
        /\ StrippedTarget # <<>> =>
               (Len(AttemptsOf({"exact"})) = 3 /\ Len(AttemptsOf({"fallback"})) = 5)

C29_Witness ==
    /\ fn = "execute_click"
    /\ fout.result = "false"
    /\ StrippedTarget # <<>>
    /\ fin.decision.location.kind = "dict"
    /\ Len(AttemptsOf({"keyword"})) >= 2
    /\ \E k \in 1..Len(fout.ops) :
           /\ fout.ops[k].tier = "exact"
           /\ fout.ops[k].op = "click"
           /\ fout.ops[k].element > 0
           /\ ~fout.ops[k].ok

----------------------------------------------------------------------------
(* Properties of _extract_keywords *)

\* the tokens of the text handed over, lowercased
Tokens == SplitWords(Lower(fin))

\* the tokens that are left once the stop-words are removed
RemainingTokens == SelectSeq(Tokens, LAMBDA w : w \notin Stopwords)

WordCount(keyword) ==
    1 + Len(SelectSeq(keyword, LAMBDA c : c = " "))

\* where the n-gram or the word first stands in the tokens
FirstAt(tokens, keyword) ==
    LET n == WordCount(keyword)
    IN  CHOOSE i \in 1..Len(tokens) :
            /\ i + n - 1 <= Len(tokens)
            /\ JoinWords(SubSeq(tokens, i, i + n - 1)) = keyword
            /\ \A j \in 1..(i - 1) :
                   j + n - 1 > Len(tokens)
                   \/ JoinWords(SubSeq(tokens, j, j + n - 1)) # keyword

\* the n-grams of the tokens: n consecutive tokens, none a stop-word
Grams(tokens, n) ==
    { JoinWords(SubSeq(tokens, i, i + n - 1)) :
        i \in { i \in 1..(Len(tokens) - n + 1) :
                  \A k \in i..(i + n - 1) : tokens[k] \notin Stopwords } }

Singles == { Tokens[i] : i \in { i \in 1..Len(Tokens) :
                                   Tokens[i] \notin Stopwords /\ Len(Tokens[i]) > 2 } }

\* out lists, without repetition, the 3-grams of the tokens, then their
\* 2-grams, each in the order of the text, then the single words, longest
\* first and words of one length in the order of the text
KeywordsFrom(tokens, out) ==
    /\ \A p, r \in 1..Len(out) : p # r => out[p] # out[r]
    /\ { out[p] : p \in 1..Len(out) } = Grams(tokens, 3) \cup Grams(tokens, 2) \cup Singles
    /\ \A p, r \in 1..Len(out) :
           p < r =>
               \/ WordCount(out[p]) > WordCount(out[r])
               \/ /\ WordCount(out[p]) = WordCount(out[r])
                  /\ WordCount(out[p]) > 1
                  /\ FirstAt(tokens, out[p]) < FirstAt(tokens, out[r])
               \/ /\ WordCount(out[p]) = 1
                  /\ WordCount(out[r]) = 1
                  /\ \/ Len(out[p]) > Len(out[r])
                     \/ /\ Len(out[p]) = Len(out[r])
                        /\ FirstAt(Tokens, out[p]) < FirstAt(Tokens, out[r])

Extracted == fn = "extract_keywords" /\ fout # NoKeywords

\* C30 (as claimed): the keywords are the 3-grams, then the 2-grams, of the
\* tokens that remain once the stop-words are stripped, then the single
\* words longest first, without repetition.
C30_GramsOfRemaining ==
    Extracted => KeywordsFrom(RemainingTokens, fout.value)

\* C30 (amended): the keywords are the 3-grams, then the 2-grams, of the
\* tokens of the text that hold no stop-word (tokens that a stop-word
\* separates are never joined), then the single words longest first,
\* without repetition.
C30_GramsWithoutStopwords ==
    Extracted => KeywordsFrom(Tokens, fout.value)

C30_Witness ==
    /\ Extracted
    /\ fin = <<"o", "p", "e", "n", " ", "T", "h", "e", " ", "\t", "N", "e", "w", " ", "p", "r", "o", "j", "e", "c", "t">>
    /\ fout.value = << <<"n", "e", "w", " ", "p", "r", "o", "j", "e", "c", "t">>, <<"p", "r", "o", "j", "e", "c", "t">>, <<"o", "p", "e", "n">>, <<"n", "e", "w">> >>

----------------------------------------------------------------------------
(* Properties of _execute_type *)

Typed == fn = "execute_type" /\ fout # NoResult /\ fout.result # "raise"

\* the target the attempts work with, after the split of "selector|value"
TypedTarget == TypeArguments(fin.target, fin.text).target

\* C31 (as claimed): for a target that begins with a structural prefix and
\* is no generic term, every page operation of the type action is made on
\* the element of that selector; no generic fallback selector is tried.
C31_SelectorUsedLiterally ==
    (Typed /\ IsCssSelector(TypedTarget) /\ ~IsGeneric(TypedTarget)) =>
        \A i \in 1..Len(fout.ops) : fout.ops[i].on = "css selector"

\* the candidates of the type action, de-duplicated, in order
Candidates == TypeAttempts(TypedTarget)

\* the operations of one kind, in the order they were made
OpsOfKind(kind) == SelectSeq(fout.ops, LAMBDA o : o.op = kind)

\* the candidates on which an operation of the kind was made and raised
RaisedOn(kind) ==
    { fout.ops[i].on : i \in { i \in 1..Len(fout.ops) :
                                 fout.ops[i].op = kind /\ ~fout.ops[i].ok } }

\* an operation that lets the type action return true
Lands(o) == o.op \in {"fill", "type"} /\ o.ok

\* a true is returned at the first fill or keystrokes that do not raise, and
\* nothing is tried after it
StopsAtFirstSuccess ==
    /\ fout.result = "true" <=> \E i \in 1..Len(fout.ops) : Lands(fout.ops[i])
    /\ \A i \in 1..Len(fout.ops) : Lands(fout.ops[i]) => i = Len(fout.ops)

\* C32 (as claimed): a type action returns false only after the direct fill
\* and the keyboard fallback have both been tried, and have both failed, on
\* every candidate of the de-duplicated list; it returns true at the first
\* candidate where one of them succeeds and tries nothing later.
C32_BothPathsEveryCandidate ==
    Typed =>
        /\ StopsAtFirstSuccess
        /\ fout.result = "false" =>
               \A k \in 1..Len(Candidates) :
                   /\ Candidates[k] \in RaisedOn("fill")
                   /\ Candidates[k] \in RaisedOn("type")

\* C32 (amended): a type action returns false only after every candidate of
\* the de-duplicated list has been waited for, in order, and on every
\* candidate found attached the direct fill and the keyboard fallback have
\* both been tried and have both failed; a candidate that is not attached is
\* passed over without fill or keystrokes; true is returned at the first
\* candidate where one of them succeeds and nothing later is tried.
C32_BothPathsEveryAttached ==
    Typed =>
        /\ StopsAtFirstSuccess
        /\ \A j, k \in 1..Len(Candidates) : j # k => Candidates[j] # Candidates[k]
        /\ LET waits == OpsOfKind("wait_for")
           IN  /\ Len(waits) <= Len(Candidates)
               /\ \A k \in 1..Len(waits) : waits[k].on = Candidates[k]
               /\ fout.result = "false" => Len(waits) = Len(Candidates)
        /\ fout.result = "false" =>
               \A k \in 1..Len(Candidates) :
                   IF Candidates[k] \in fin.form.attached
                   THEN /\ Candidates[k] \in RaisedOn("fill")
                        /\ Candidates[k] \in RaisedOn("type")
                   ELSE \A i \in 1..Len(fout.ops) :
                            fout.ops[i].on = Candidates[k] => fout.ops[i].op = "wait_for"

C32_Witness ==
    /\ Typed
    /\ fout.result = "false"
    /\ IsStr(fin.text) /\ fin.text # <<>>
    /\ fin.form.attached = {"label text", "any contenteditable"}
    /\ "label text" \in RaisedOn("type")
    /\ "any contenteditable" \in RaisedOn("type")
    /\ ~("placeholder" \in RaisedOn("fill"))

----------------------------------------------------------------------------
(* Properties of _find_best_spatial_match *)

Matched == fn = "find_best_spatial_match" /\ fout # NoMatch

Hint == IF Truthy(fin.position) THEN Lower(fin.position) ELSE <<>>

Hinted(word) == Contains(Hint, word)

\* the box lies in a region the hint names, the regions being thirds of the
\* viewport
InHintedThird(box) ==
    \/ Hinted(<<"t", "o", "p">>) /\ 3 * box.y <= ViewportHeight
    \/ Hinted(<<"b", "o", "t", "t", "o", "m">>) /\ 3 * box.y >= 2 * ViewportHeight
    \/ Hinted(<<"l", "e", "f", "t">>) /\ 3 * box.x <= ViewportWidth
    \/ Hinted(<<"r", "i", "g", "h", "t">>) /\ 3 * box.x >= 2 * ViewportWidth
    \/ /\ Hinted(<<"c", "e", "n", "t", "e", "r">>)
       /\ ViewportWidth < 3 * box.x /\ 3 * box.x < 2 * ViewportWidth
    \/ Hinted(<<"t", "o", "o", "l", "b", "a", "r">>) /\ box.y <= ToolbarHeight

\* the box lies in a region the hint names, the regions being: top, the
\* upper fifth of the height; bottom, from 7/10 of the height down; left, up
\* to 3/10 of the width; right, from 7/10 of the width on; center, strictly
\* between 3/10 and 7/10 of the width; toolbar, the upper 100 px
InHintedRegion(box) ==
    \/ Hinted(<<"t", "o", "p">>) /\ 10 * box.y <= 2 * ViewportHeight
    \/ Hinted(<<"b", "o", "t", "t", "o", "m">>) /\ 10 * box.y >= 7 * ViewportHeight
    \/ Hinted(<<"l", "e", "f", "t">>) /\ 10 * box.x <= 3 * ViewportWidth
    \/ Hinted(<<"r", "i", "g", "h", "t">>) /\ 10 * box.x >= 7 * ViewportWidth
    \/ /\ Hinted(<<"c", "e", "n", "t", "e", "r">>)
       /\ 3 * ViewportWidth < 10 * box.x /\ 10 * box.x < 7 * ViewportWidth
    \/ Hinted(<<"t", "o", "o", "l", "b", "a", "r">>) /\ box.y <= ToolbarHeight

\* the elements that have a bounding box
Boxed == { i \in 1..Len(fin.elements) : fin.elements[i].state # "stale" }

RegionScoreOf(i) ==
    SpatialScore(Hint, fin.elements[i], ViewportWidth, ViewportHeight)

\* C33 (as claimed): an element is returned if and only if the position hint
\* is not empty and an enumerated element lies in a hinted region, top,
\* bottom, left and right being thirds of the viewport, center the middle
\* third and toolbar y <= 100; the element returned has the greatest score.
C33_HintedThirds ==
    Matched =>
        /\ fout.match # 0 <=>
               (Hint # <<>> /\ \E i \in 1..Len(fin.elements) : InHintedThird(fin.elements[i]))
        /\ fout.match # 0 =>
               \A j \in Boxed : RegionScoreOf(j) <= RegionScoreOf(fout.match)

\* C33 (amended): an element is returned if and only if the viewport size is
\* known, the position hint is not empty and an element with a bounding box
\* lies in a hinted region, the regions being y <= 2/10 of the height for
\* top, y >= 7/10 for bottom, x <= 3/10 of the width for left, x >= 7/10 for
\* right, 3/10 < x < 7/10 of the width for center and y <= 100 for toolbar;
\* the element returned is the first of those with the greatest score.
C33_HintedRegions ==
    Matched =>
        /\ fout.match # 0 <=>
               /\ fin.viewport # NoViewport
               /\ Hint # <<>>
               /\ \E i \in Boxed : InHintedRegion(fin.elements[i])
        /\ fout.match # 0 =>
               /\ fout.match \in Boxed
               /\ InHintedRegion(fin.elements[fout.match])
               /\ \A j \in Boxed : RegionScoreOf(j) <= RegionScoreOf(fout.match)
               /\ \A j \in Boxed :
                      j < fout.match => RegionScoreOf(j) < RegionScoreOf(fout.match)

C33_Witness ==
    /\ Matched
    /\ fin.position = <<"T", "o", "p", " ", "L", "e", "f", "t">>
    /\ fin.viewport = LaunchViewport
    /\ Len(fin.elements) = 2
    /\ fin.elements[1] = [x |-> 100, y |-> 300, state |-> "ok"]
    /\ fin.elements[2] = [x |-> 100, y |-> 50, state |-> "ok"]
    /\ fout.match = 2

----------------------------------------------------------------------------
(* Properties of the counters, the gate and the loop guard of a run *)

RecordsWith(history, status) ==
    Len(SelectSeq(history, LAMBDA r : r.status = status))

\* C34: in every state successful_actions is the number of history records
\* with status success, rejected and failed records counting for nothing,
\* and every record has status success, failed or rejected; an outcome that
\* carries both the counter and the history satisfies the same equality.
C34_CounterCountsSuccessRecords ==
    /\ successful_actions = RecordsWith(action_history, "success")
    /\ \A i \in 1..Len(action_history) :
           action_history[i].status \in {"success", "failed", "rejected"}
    /\ ({"successful_actions", "action_history"} \subseteq DOMAIN outcome)
           => outcome.successful_actions = RecordsWith(outcome.action_history, "success")

C34_Witness ==
    /\ pc = "returned"
    /\ HasReason
    /\ SomeRecord("success") /\ SomeRecord("failed") /\ SomeRecord("rejected")
    /\ outcome.successful_actions = 1
    /\ Len(outcome.action_history) >= 3

\* C35: every outcome with success = true has reason completed and a count
\* of successful actions that is at least 1 and at least
\* MIN_SUCCESSFUL_ACTIONS, whatever the threshold is, zero and negative
\* thresholds included.
C35_NoSuccessWithoutActions ==
    (outcome # NoOutcome /\ outcome.success) =>
        /\ HasReason /\ outcome.reason = "completed"
        /\ outcome.successful_actions >= 1
        /\ outcome.successful_actions >= min_actions
        /\ workflow_completed

C35_Witness ==
    /\ pc = "returned"
    /\ outcome # NoOutcome /\ outcome.success
    /\ min_actions <= 0
    /\ outcome.successful_actions = 1

\* the records i and j are of the same kind with the same normalized target
SameMove(r1, r2) ==
    /\ r1.action = r2.action
    /\ IF IsStr(r1.target) /\ IsStr(r2.target)
       THEN NormalizeTarget(r1.target) = NormalizeTarget(r2.target)
       ELSE r1.target = r2.target

\* C36: the history never holds four consecutive records of a kind other
\* than done with the same action kind and the same normalized target, and
\* the reason loop_detected is never set before the fourth step.
C36_NoFourthRepeat ==
    /\ \A i \in 1..(Len(action_history) - 3) :
           ~ /\ action_history[i].action # "done"
             /\ \A k \in 1..3 : SameMove(action_history[i], action_history[i + k])
    /\ failure_reason = "loop_detected" => step_count >= 4
    /\ (HasReason /\ outcome.reason = "loop_detected") => outcome.total_steps >= 4

C36_Witness ==
    /\ pc = "returned"
    /\ HasReason /\ outcome.reason = "loop_detected"
    /\ outcome.total_steps = 4
    /\ Len(action_history) = 3
    /\ SameMove(action_history[1], action_history[3])
    /\ action_history[1].target # action_history[2].target
    /\ decision.action = action_history[3].action

LoopDeclared ==
    /\ pc = "loop"
    /\ oracle_calls' = oracle_calls + 1
    /\ decision'.action \notin {"done", "<none>"}
    /\ IsLooping(action_history, decision') = "true"

\* C37: once an action has failed (failure_reason is action_failed), the
\* reason is only ever replaced by loop_detected; a step at which the loop
\* guard declares a loop ends the run with reason loop_detected, and any
\* other outcome that carries a reason then has action_failed or, for an
\* accepted completion, completed.
C37_LoopDetectedOverridesFailure ==
    [][ failure_reason = "action_failed" =>
          /\ failure_reason' \in {"action_failed", "loop_detected"}
          /\ LoopDeclared =>
                 /\ failure_reason' = "loop_detected"
                 /\ "reason" \in DOMAIN outcome' /\ outcome'.reason = "loop_detected"
          /\ (~LoopDeclared /\ outcome' # outcome /\ "reason" \in DOMAIN outcome') =>
                 /\ failure_reason' = "action_failed"
                 /\ outcome'.reason \in {"action_failed", "completed"}
                 /\ outcome'.reason = "completed" => (workflow_completed' /\ outcome'.success)
      ]_vars

C37_Witness ==
    /\ pc = "returned"
    /\ HasReason /\ outcome.reason = "loop_detected"
    /\ failure_reason = "loop_detected"
    /\ action_history[1].status = "failed"
    /\ action_history[3].status = "success"

----------------------------------------------------------------------------
(* Properties of the browser context of a run *)

RunOver == pc \in {"returned", "raised"}

\* C38 (as claimed): once the browser context has been launched,
\* context.close() is called exactly once on every exit path, an exception
\* raised while the first page is obtained included, before the run is over:
\* it is never called twice, a launched context leads to the call, and no
\* run is over with a launched context and no call.
C38_ClosedExactlyOnce ==
    /\ [](close_calls <= 1)
    /\ (context = "open" /\ close_calls = 0) ~> (close_calls = 1)
    /\ []((RunOver /\ context # "none") => close_calls = 1)

----------------------------------------------------------------------------
(* Properties of the keyboard fallback of _execute_type *)

\* the click-to-focus that precedes operation i on the same candidate
FocusBefore(i) ==
    { j \in 1..(i - 1) : fout.ops[j].op = "click" /\ fout.ops[j].on = fout.ops[i].on }

\* C39 (as claimed): in the fallback path the literal keystrokes are
\* simulated, and success reported for them, only if the click-to-focus on
\* that candidate succeeded; Control+A is pressed only if Meta+A raised.
C39_KeystrokesOnlyAfterFocus ==
    Typed =>
        \A i \in 1..Len(fout.ops) :
            /\ fout.ops[i].op = "type" =>
                   \E j \in FocusBefore(i) : fout.ops[j].ok
            /\ fout.ops[i].op = "press Control+A" =>
                   /\ i > 1
                   /\ fout.ops[i - 1].op = "press Meta+A"
                   /\ ~fout.ops[i - 1].ok

----------------------------------------------------------------------------
(* Properties of the click primitives of _execute_click *)

\* the positions in the operations of the clicks that did not raise
LandedClicks ==
    { k \in 1..Len(fout.ops) : fout.ops[k].op = "click" /\ fout.ops[k].ok }

\* C40: one call of _execute_click has at most one click primitive that
\* succeeds, issues no click after it, and returns true if and only if
\* exactly one click primitive succeeded.
C40_AtMostOneClickLands ==
    (fn = "execute_click" /\ fout # NoResult) =>
        /\ Cardinality(LandedClicks) <= 1
        /\ \A k \in LandedClicks :
               \A j \in (k + 1)..Len(fout.ops) : fout.ops[j].op # "click"
        /\ fout.result = "true" <=> Cardinality(LandedClicks) = 1

C40_Witness ==
    /\ fn = "execute_click"
    /\ fout # NoResult
    /\ fout.result = "true"
    /\ Cardinality(LandedClicks) = 1
    /\ \E j \in 1..Len(fout.ops) :
           /\ fout.ops[j].op = "click" /\ ~fout.ops[j].ok
           /\ fout.ops[j].tier = "exact"
    /\ fout.ops[Len(fout.ops)].tier # "exact"

====
